---- MODULE Spec2Model ----
(***************************************************************************)
(* Model of the section grouper / scorer of accessible-snapshot            *)
(* (groupAndScoreContent and its helpers, src/src/renderer.ts 255-474)     *)
(* and of the page extractor that feeds it (src/src/extractor.ts).         *)
(*                                                                         *)
(* Representation                                                          *)
(*  - a text is a sequence of tokens: a token is a whitespace character    *)
(*    or a piece of a word (a letter in the grouper's inputs, a whole      *)
(*    word, a punctuation sign or a URL part in the extractor's);          *)
(*  - an optional field (level?, items?, rows?, definitions?, heading?)    *)
(*    is a sequence of length 0 (undefined) or 1 (the value); for the      *)
(*    arrays items, rows and definitions the value kept is the array's     *)
(*    length, the only thing the grouper reads of them;                    *)
(*  - sourceContext is "main", "article", "body" or "undefined";           *)
(*  - a score is an exact rational kept as an integer number of            *)
(*    eightieths of a point (0.1 = 8, 1 = 80), so that wordCount / 10,     *)
(*    0.3 * rows, the halving and the mean of two medians are all exact.   *)
(*    The rounding of IEEE doubles is not modelled.                        *)
(***************************************************************************)
EXTENDS Integers, Sequences, FiniteSets, TLC

VARIABLES blocks, groups, splitRan, pc, doc, snapshot,
          worker, session, tabs, ready, navigate, viewer

vars == <<blocks, groups, splitRan, pc, doc, snapshot,
          worker, session, tabs, ready, navigate, viewer>>

(* the state of the background worker, its browser and the viewer          *)
workerVars == <<worker, session, tabs, ready, navigate, viewer>>

----------------------------------------------------------------------------
(* Scores: n tenths of a point, n whole points.                            *)
Tenths(n) == 8 * n
Points(n) == 80 * n

(* Program constants of renderer.ts.                                       *)
DEFAULT_HEADING_LEVEL == 2
SPLIT_MIN_BLOCKS == 10
PRODUCT_MAX_WORDS == 10
SHORT_RUN == 3
MIN_PARAGRAPH_WORDS == 5
REPEAT_MIN == 3
MIN_THRESHOLD == 5

----------------------------------------------------------------------------
(* Text primitives.                                                        *)

IsWhitespace(c) == c \in {" ", "\t", "\n"}

(* text.split(/\s+/).length: one more than the number of maximal runs of   *)
(* whitespace (the empty text gives 1, a leading or trailing run adds an   *)
(* empty piece).                                                           *)
SplitCount(text) ==
    1 + Cardinality({i \in 1..Len(text) :
            /\ IsWhitespace(text[i])
            /\ (i = 1 \/ ~IsWhitespace(text[i - 1]))})

(* text.trim()                                                              *)
Trim(text) ==
    LET solid == {i \in 1..Len(text) : ~IsWhitespace(text[i])}
    IN  IF solid = {} THEN <<>>
        ELSE LET lo == CHOOSE i \in solid : \A j \in solid : i <= j
                 hi == CHOOSE i \in solid : \A j \in solid : j <= i
             IN  SubSeq(text, lo, hi)

(* /[.!?]$/.test(text)                                                      *)
EndsSentence(text) ==
    Len(text) > 0 /\ text[Len(text)] \in {".", "!", "?"}

Min(a, b) == IF a <= b THEN a ELSE b
Max(a, b) == IF a >= b THEN a ELSE b

----------------------------------------------------------------------------
(* groupContentByHeadings                                                  *)

NewGroup(heading, blks, collapsed) ==
    [heading |-> heading, blocks |-> blks, score |-> 0, collapsed |-> collapsed]

HeadingOf(block) ==
    [text  |-> block.text,
     level |-> IF block.level = <<>> THEN DEFAULT_HEADING_LEVEL ELSE block.level[1]]

(* Mutants of HasContent: a heading alone does not count; everything counts. *)
HasContentBlocksOnly(current) == Len(current.blocks) > 0
HasContentAlways(current) == TRUE

HasContent(current) == Len(current.blocks) > 0 \/ current.heading # <<>>

RECURSIVE HeadingLoop(_, _, _, _)
HeadingLoop(input, i, acc, current) ==
    IF i > Len(input)
    THEN IF HasContent(current) THEN Append(acc, current) ELSE acc
    ELSE IF input[i].type = "heading"
         THEN HeadingLoop(input, i + 1,
                          IF HasContent(current) THEN Append(acc, current) ELSE acc,
                          NewGroup(<<HeadingOf(input[i])>>, <<>>, FALSE))
         ELSE HeadingLoop(input, i + 1, acc,
                          [current EXCEPT !.blocks = Append(@, input[i])])

PartitionByHeadings(input) == HeadingLoop(input, 1, <<>>, NewGroup(<<>>, <<>>, FALSE))

(* Mutant of FallbackApplies: ten blocks are already enough.                *)
FallbackAppliesFromTen(gs) ==
    /\ Len(gs) = 1
    /\ gs[1].heading = <<>>
    /\ Len(gs[1].blocks) >= SPLIT_MIN_BLOCKS

FallbackApplies(gs) ==
    /\ Len(gs) = 1
    /\ gs[1].heading = <<>>
    /\ Len(gs[1].blocks) > SPLIT_MIN_BLOCKS

IsProductLike(block) ==
    /\ block.type = "paragraph"
    /\ SplitCount(block.text) < PRODUCT_MAX_WORDS
    /\ ~EndsSentence(Trim(block.text))

ProductLikeCount(blks) == Cardinality({i \in 1..Len(blks) : IsProductLike(blks[i])})

(* productLikeCount / blocks.length > 0.6                                  *)
MostlyProductLike(blks) == 5 * ProductLikeCount(blks) > 3 * Len(blks)

RECURSIVE SplitLoop(_, _, _, _, _)
SplitLoop(blks, i, result, current, shortRun) ==
    IF i > Len(blks)
    THEN IF Len(current) > 0 THEN Append(result, NewGroup(<<>>, current, FALSE))
                             ELSE result
    ELSE LET run  == IF IsProductLike(blks[i]) THEN shortRun + 1 ELSE 0
             curr == Append(current, blks[i])
         IN  IF run >= SHORT_RUN
             THEN SplitLoop(blks, i + 1, Append(result, NewGroup(<<>>, curr, TRUE)), <<>>, 0)
             ELSE SplitLoop(blks, i + 1, result, curr, run)

SplitLargeHeadinglessGroup(group) ==
    IF MostlyProductLike(group.blocks)
    THEN <<[group EXCEPT !.collapsed = TRUE]>>
    ELSE SplitLoop(group.blocks, 1, <<>>, <<>>, 0)

GroupContentByHeadings(input) ==
    LET gs == PartitionByHeadings(input)
    IN  IF FallbackApplies(gs) THEN SplitLargeHeadinglessGroup(gs[1]) ELSE gs

----------------------------------------------------------------------------
(* Scoring                                                                 *)

CountContext(blks, ctx) ==
    Cardinality({i \in 1..Len(blks) :
        (IF blks[i].sourceContext = "undefined" THEN "body" ELSE blks[i].sourceContext) = ctx})

(* Mutant of GetDominantContext: main needs a strict majority.             *)
GetDominantContextStrict(blks) ==
    LET main    == CountContext(blks, "main")
        article == CountContext(blks, "article")
        body    == CountContext(blks, "body")
    IN  IF main > article /\ main > body THEN "main"
        ELSE IF article >= body THEN "article"
        ELSE "body"

GetDominantContext(blks) ==
    LET main    == CountContext(blks, "main")
        article == CountContext(blks, "article")
        body    == CountContext(blks, "body")
    IN  IF main >= article /\ main >= body THEN "main"
        ELSE IF article >= body THEN "article"
        ELSE "body"

(* array?.length ?? 0                                                      *)
LengthOrZero(opt) == IF opt = <<>> THEN 0 ELSE opt[1]

(* Mutant of TypeScore: a paragraph needs more than five words.            *)
TypeScoreOverFive(block) ==
    CASE block.type = "paragraph" ->
            LET wordCount == SplitCount(block.text)
            IN  IF wordCount > MIN_PARAGRAPH_WORDS
                THEN Min(Tenths(wordCount), Points(5)) ELSE 0
      [] block.type = "list"            -> Tenths(5 * LengthOrZero(block.items))
      [] block.type = "image"           -> Points(3)
      [] block.type = "blockquote"      -> Points(4)
      [] block.type = "preformatted"    -> Points(4)
      [] block.type = "table"           ->
            Min(Points(3) + Tenths(3 * LengthOrZero(block.rows)), Points(10))
      [] block.type = "definition-list" ->
            Min(Points(LengthOrZero(block.definitions)), Points(8))
      [] OTHER -> 0

TypeScore(block) ==
    CASE block.type = "paragraph" ->
            LET wordCount == SplitCount(block.text)
            IN  IF wordCount >= MIN_PARAGRAPH_WORDS
                THEN Min(Tenths(wordCount), Points(5)) ELSE 0
      [] block.type = "list"            -> Tenths(5 * LengthOrZero(block.items))
      [] block.type = "image"           -> Points(3)
      [] block.type = "blockquote"      -> Points(4)
      [] block.type = "preformatted"    -> Points(4)
      [] block.type = "table"           ->
            Min(Points(3) + Tenths(3 * LengthOrZero(block.rows)), Points(10))
      [] block.type = "definition-list" ->
            Min(Points(LengthOrZero(block.definitions)), Points(8))
      [] OTHER -> 0

BlockScore(block, repetitionSet) ==
    IF block.text \in repetitionSet THEN 0 - Points(1) ELSE TypeScore(block)

RECURSIVE SumScores(_, _, _)
SumScores(blks, i, repetitionSet) ==
    IF i > Len(blks) THEN 0
    ELSE BlockScore(blks[i], repetitionSet) + SumScores(blks, i + 1, repetitionSet)

ZeroOrNegativeCount(blks, repetitionSet) ==
    Cardinality({i \in 1..Len(blks) : BlockScore(blks[i], repetitionSet) <= 0})

ContextBonus(blks) ==
    LET dominantCtx == GetDominantContext(blks)
    IN  IF dominantCtx = "main" THEN Points(2)
        ELSE IF dominantCtx = "article" THEN Tenths(15)
        ELSE 0

HeadingBonus(group) ==
    IF group.heading # <<>>
    THEN LET headingWords == SplitCount(group.heading[1].text)
         IN  IF headingWords >= 3 /\ headingWords <= 10 THEN Points(2) ELSE 0
    ELSE 0

(* Mutant of NoiseDominated: 60% is already enough.                        *)
NoiseDominatedAtSixty(blks, repetitionSet) ==
    /\ Len(blks) > 0
    /\ 5 * ZeroOrNegativeCount(blks, repetitionSet) >= 3 * Len(blks)

(* zeroOrNegativeCount / group.blocks.length > 0.6                         *)
NoiseDominated(blks, repetitionSet) ==
    /\ Len(blks) > 0
    /\ 5 * ZeroOrNegativeCount(blks, repetitionSet) > 3 * Len(blks)

ScoreContentGroup(group, repetitionSet) ==
    LET total == SumScores(group.blocks, 1, repetitionSet)
                    + ContextBonus(group.blocks) + HeadingBonus(group)
    IN  IF NoiseDominated(group.blocks, repetitionSet) THEN total \div 2 ELSE total

CountIn(blks, text) == Cardinality({i \in 1..Len(blks) : blks[i].text = text})

RECURSIVE Frequency(_, _, _)
Frequency(gs, g, text) ==
    IF g > Len(gs) THEN 0
    ELSE CountIn(gs[g].blocks, text) + Frequency(gs, g + 1, text)

TextsOf(gs) ==
    UNION {{gs[g].blocks[i].text : i \in 1..Len(gs[g].blocks)} : g \in 1..Len(gs)}

(* Mutant of BuildRepetitionSet: a second occurrence already repeats.      *)
BuildRepetitionSetFromTwo(gs) == {t \in TextsOf(gs) : Frequency(gs, 1, t) >= 2}

BuildRepetitionSet(gs) == {t \in TextsOf(gs) : Frequency(gs, 1, t) >= REPEAT_MIN}

ScoreGroups(gs) ==
    LET repetitionSet == BuildRepetitionSet(gs)
    IN  [g \in 1..Len(gs) |->
            [gs[g] EXCEPT !.score = ScoreContentGroup(gs[g], repetitionSet)]]

----------------------------------------------------------------------------
(* Adaptive threshold                                                      *)

(* scores.sort((a, b) => a - b), as an insertion sort                      *)
RECURSIVE Insert(_, _)
Insert(sorted, x) ==
    IF sorted = <<>> THEN <<x>>
    ELSE IF x < Head(sorted) THEN <<x>> \o sorted
    ELSE <<Head(sorted)>> \o Insert(Tail(sorted), x)

RECURSIVE SortScores(_)
SortScores(s) == IF s = <<>> THEN <<>> ELSE Insert(SortScores(Tail(s)), Head(s))

(* Mutant of Median: the lower middle element for an even count.           *)
MedianLowerMiddle(gs) ==
    LET scores == SortScores([g \in 1..Len(gs) |-> gs[g].score])
        n      == Len(scores)
    IN  IF n > 0
        THEN IF n % 2 = 1 THEN scores[(n \div 2) + 1] ELSE scores[n \div 2]
        ELSE 0

Median(gs) ==
    LET scores == SortScores([g \in 1..Len(gs) |-> gs[g].score])
        n      == Len(scores)
    IN  IF n > 0
        THEN IF n % 2 = 1
             THEN scores[(n \div 2) + 1]
             ELSE (scores[n \div 2] + scores[(n \div 2) + 1]) \div 2
        ELSE 0

Threshold(gs) == Max(Points(MIN_THRESHOLD), Median(gs))

MarkCollapsedGroups(gs, threshold) ==
    [g \in 1..Len(gs) |-> [gs[g] EXCEPT !.collapsed = gs[g].score < threshold]]

GroupAndScoreContent(input) ==
    LET scored == ScoreGroups(GroupContentByHeadings(input))
    IN  MarkCollapsedGroups(scored, Threshold(scored))

----------------------------------------------------------------------------
(* Inputs.  The block sequences explored are four bounded families, each   *)
(* a set of sequences over a palette of blocks:                            *)
(*   sections  - headings and mixed blocks with shared texts and contexts; *)
(*   noise     - zero-scoring and scoring blocks, long enough for a        *)
(*               heading and 3 of 5;                                       *)
(*   kinds     - every block type at the edges of its scoring rule;        *)
(*   long      - more than ten blocks with pairwise different texts, block *)
(*               i being a one-word paragraph or a blockquote, optionally  *)
(*               behind one heading.                                       *)

MaxSectionBlocks == 4
MaxNoiseBlocks == 6
MaxKindBlocks == 2
MaxLongBlocks == 12

Block(type, text, ctx) ==
    [type |-> type, text |-> text, level |-> <<>>, items |-> <<>>, rows |-> <<>>,
     definitions |-> <<>>, sourceContext |-> ctx]

Heading(text, level) == [Block("heading", text, "undefined") EXCEPT !.level = level]
List(text, n, ctx) == [Block("list", text, ctx) EXCEPT !.items = n]
Table(text, n) == [Block("table", text, "body") EXCEPT !.rows = n]
DefinitionList(text, n) == [Block("definition-list", text, "body") EXCEPT !.definitions = n]

(* n copies of the word c, separated by single spaces                      *)
RECURSIVE Words(_, _)
Words(c, n) == IF n <= 1 THEN <<c>> ELSE <<c, " ">> \o Words(c, n - 1)

SectionPalette ==
    { Heading(Words("h", 3), <<1>>),
      Heading(<<"t">>, <<>>),
      Block("blockquote", <<"q">>, "undefined"),
      Block("image", <<"q">>, "main"),
      Block("paragraph", Words("p", 10) \o <<".">>, "article"),
      Block("paragraph", <<"q">>, "body"),
      List(<<"l">>, <<2>>, "article") }

NoisePalette ==
    { Heading(Words("h", 3), <<2>>),
      Block("paragraph", <<"a">>, "main"),
      Block("paragraph", <<"b">>, "body"),
      Block("blockquote", <<"c">>, "body") }

KindPalette ==
    { Block("paragraph", Words("w", n), "body") : n \in {1, 4, 5, 9, 10, 50, 51} }
    \cup { List(<<>>, n, "body") : n \in {<<>>, <<0>>, <<1>>, <<3>>} }
    \cup { Block("image", <<>>, "body"),
           Block("blockquote", <<"q">>, "undefined"),
           Block("preformatted", <<"c">>, "body") }
    \cup { Table(<<"t">> \o Words("r", Len(n)), n) : n \in {<<>>, <<0>>, <<1>>, <<23>>, <<24>>} }
    \cup { DefinitionList(<<"d">> \o Words("r", Len(n)), n) :
              n \in {<<>>, <<0>>, <<1>>, <<8>>, <<9>>} }

Letters == <<"a", "b", "c", "d", "e", "f", "g", "h", "i", "j", "k", "l", "m", "n", "o">>

LongPalette(i) ==
    IF i > Len(Letters) THEN {}
    ELSE { Block("paragraph", <<Letters[i]>>, "body"),
           Block("blockquote", <<Letters[i]>>, "undefined") }
         \cup (IF i = 1 THEN {Heading(<<"t">>, <<3>>)} ELSE {})

IsInput(seq) ==
    \/ Len(seq) <= MaxSectionBlocks /\ \A i \in 1..Len(seq) : seq[i] \in SectionPalette
    \/ Len(seq) <= MaxNoiseBlocks /\ \A i \in 1..Len(seq) : seq[i] \in NoisePalette
    \/ Len(seq) <= MaxKindBlocks /\ \A i \in 1..Len(seq) : seq[i] \in KindPalette
    \/ Len(seq) <= MaxLongBlocks /\ \A i \in 1..Len(seq) : seq[i] \in LongPalette(i)

AllBlocks ==
    SectionPalette \cup NoisePalette \cup KindPalette
        \cup UNION {LongPalette(i) : i \in 1..Len(Letters)}

----------------------------------------------------------------------------
(* The state machine: the caller assembles the block sequence, then calls  *)
(* groupAndScoreContent once.  splitRan records whether that call went     *)
(* through splitLargeHeadinglessGroup.                                     *)

Init ==
    /\ blocks = <<>>
    /\ groups = <<>>
    /\ splitRan = FALSE
    /\ pc = "input"
    /\ doc = <<>>
    /\ snapshot = <<>>
    /\ worker = 0 /\ session = 0 /\ tabs = 0 /\ ready = 0 /\ navigate = 0
    /\ viewer = 0

AddBlock ==
    /\ pc = "input"
    /\ \E b \in AllBlocks :
          /\ IsInput(Append(blocks, b))
          /\ blocks' = Append(blocks, b)
    /\ UNCHANGED <<groups, splitRan, pc, doc, snapshot, workerVars>>

Run ==
    /\ pc = "input"
    /\ groups' = GroupAndScoreContent(blocks)
    /\ splitRan' = FallbackApplies(PartitionByHeadings(blocks))
    /\ pc' = "done"
    /\ UNCHANGED <<blocks, doc, snapshot, workerVars>>

Next == AddBlock \/ Run

Spec == Init /\ [][Next]_vars

----------------------------------------------------------------------------
(* Properties.  Helpers written from the statements, not from the code.    *)

Done == pc = "done"

GroupIds == 1..Len(groups)

HeadingCount == Cardinality({i \in 1..Len(blocks) : blocks[i].type = "heading"})

(* The k-th smallest score of the returned groups, by counting.            *)
KthSmallest(k) ==
    CHOOSE v \in {groups[g].score : g \in GroupIds} :
        /\ Cardinality({g \in GroupIds : groups[g].score < v}) < k
        /\ Cardinality({g \in GroupIds : groups[g].score <= v}) >= k

(* Twice the median of the returned scores (twice, to stay in integers).   *)
TwiceMedian ==
    LET n == Len(groups)
    IN  IF n % 2 = 1 THEN 2 * KthSmallest((n + 1) \div 2)
        ELSE KthSmallest(n \div 2) + KthSmallest((n \div 2) + 1)

TwiceT == Max(2 * Points(5), TwiceMedian)

(* C1: every returned group has collapsed = (score < T), where             *)
(* T = max(5, median of the returned scores), the median being the middle  *)
(* element for an odd count and the mean of the two middle elements for an *)
(* even count; a group whose score equals T is expanded.                   *)
C1_ThresholdLaw ==
    Done => \A g \in GroupIds :
                groups[g].collapsed <=> (2 * groups[g].score < TwiceT)

(* C1 witness: an even number of groups, one exactly at T and expanded,    *)
(* another below T and collapsed.                                          *)
C1_Witness ==
    /\ Done
    /\ Len(groups) > 0 /\ Len(groups) % 2 = 0
    /\ \E g \in GroupIds : 2 * groups[g].score = TwiceT /\ ~groups[g].collapsed
    /\ \E g \in GroupIds : groups[g].collapsed

NoHeadingInput == HeadingCount = 0

(* C2 (as stated): a headingless input of more than ten blocks of which    *)
(* more than 60% are product-like comes back as one group holding all the  *)
(* blocks, collapsed whatever its score.                                   *)
C2_NoiseSectionCollapsed ==
    (Done /\ NoHeadingInput /\ Len(blocks) > 10 /\ MostlyProductLike(blocks))
        => /\ Len(groups) = 1
           /\ groups[1].blocks = blocks
           /\ groups[1].collapsed

RECURSIVE BlocksOfFrom(_, _)
BlocksOfFrom(gs, g) ==
    IF g > Len(gs) THEN <<>> ELSE gs[g].blocks \o BlocksOfFrom(gs, g + 1)

(* A sub-section closed by a run: its last three blocks are product-like   *)
(* (the run counter restarts with every sub-section).                      *)
ClosedByRun(group) ==
    LET n == Len(group.blocks)
    IN  n >= 3 /\ \A i \in (n - 2)..n : IsProductLike(group.blocks[i])

(* C3 (as stated): when the fallback splits (ratio at most 60%), every     *)
(* sub-section closed after three consecutive product-like blocks is       *)
(* returned collapsed, and the sub-sections concatenate to the input.      *)
C3_RunSectionsCollapsed ==
    (Done /\ splitRan /\ ~MostlyProductLike(blocks))
        => /\ \A g \in GroupIds : ClosedByRun(groups[g]) => groups[g].collapsed
           /\ BlocksOfFrom(groups, 1) = blocks

(* A group written out: its heading, if any, as a heading block, then its  *)
(* blocks.                                                                 *)
RECURSIVE WrittenOutFrom(_, _)
WrittenOutFrom(gs, g) ==
    IF g > Len(gs) THEN <<>>
    ELSE (IF gs[g].heading # <<>>
          THEN <<Heading(gs[g].heading[1].text, <<gs[g].heading[1].level>>)>>
          ELSE <<>>)
         \o gs[g].blocks \o WrittenOutFrom(gs, g + 1)

(* The input, a heading block that carries no level being given level 2.   *)
InputWritten ==
    [i \in 1..Len(blocks) |->
        IF blocks[i].type = "heading"
        THEN Heading(blocks[i].text,
                     IF blocks[i].level = <<>> THEN <<2>> ELSE blocks[i].level)
        ELSE blocks[i]]

C5_GroupCount ==
    (Done /\ ~splitRan)
        => Len(groups) = HeadingCount
                + (IF Len(blocks) > 0 /\ blocks[1].type # "heading" THEN 1 ELSE 0)

(* C5 witness: the input starts with a heading, two headings follow each   *)
(* other, and the input ends in a heading.                                 *)
C5_Witness ==
    /\ Done /\ ~splitRan
    /\ Len(blocks) >= 3
    /\ blocks[1].type = "heading"
    /\ \E i \in 1..(Len(blocks) - 1) :
            blocks[i].type = "heading" /\ blocks[i + 1].type = "heading"
    /\ blocks[Len(blocks)].type = "heading"
    /\ \E g \in GroupIds : Len(groups[g].blocks) = 0

(* C6: the fallback splitter runs iff the input has no heading block and   *)
(* more than ten blocks; otherwise the result is the partition by          *)
(* headings: every group after the first starts at a heading.              *)
C6_FallbackGuard ==
    Done => /\ splitRan <=> (NoHeadingInput /\ Len(blocks) > 10)
            /\ (~NoHeadingInput \/ Len(blocks) <= 10)
                    => \A g \in GroupIds : g > 1 => groups[g].heading # <<>>

(* C6 witness: a heading in front of more than ten blocks that hold a run  *)
(* of three product-like blocks, returned as one group.                    *)
C6_Witness ==
    /\ Done /\ ~splitRan
    /\ Len(groups) = 1
    /\ Len(groups[1].blocks) > 10
    /\ \E i \in 1..(Len(groups[1].blocks) - 2) :
            \A j \in i..(i + 2) : IsProductLike(groups[1].blocks[j])
    /\ ~MostlyProductLike(groups[1].blocks)

----------------------------------------------------------------------------
(* Scoring properties.                                                     *)

RECURSIVE SumOf(_)
SumOf(seq) == IF seq = <<>> THEN 0 ELSE Head(seq) + SumOf(Tail(seq))

(* A group's score from its blocks' contributions and its two bonuses: the *)
(* total, halved when the group has blocks and more than 60% of the        *)
(* contributions are zero or less.                                         *)
Settle(contribs, contextBonus, headingBonus) ==
    LET total == SumOf(contribs) + contextBonus + headingBonus
        n     == Len(contribs)
        z     == Cardinality({i \in 1..n : contribs[i] <= 0})
    IN  IF n > 0 /\ 100 * z > 60 * n THEN total \div 2 ELSE total

(* How often a text occurs among the blocks of all returned groups.        *)
OccurrencesOf(text) ==
    Cardinality({p \in UNION {{<<g, i>> : i \in 1..Len(groups[g].blocks)} : g \in GroupIds} :
                    groups[p[1]].blocks[p[2]].text = text})

(* The words of a text: its maximal runs of non-whitespace characters.     *)
WordsIn(text) ==
    Cardinality({i \in 1..Len(text) :
        ~IsWhitespace(text[i]) /\ (i = 1 \/ IsWhitespace(text[i - 1]))})

(* C7: a text occurring three or more times among the blocks of all groups *)
(* makes each block with that text contribute exactly -1, whatever its     *)
(* type, word count or group; a text occurring once or twice is scored by  *)
(* its type.                                                               *)
C7_RepetitionPenalty ==
    Done => \A g \in GroupIds :
        groups[g].score =
            Settle([i \in 1..Len(groups[g].blocks) |->
                        IF OccurrencesOf(groups[g].blocks[i].text) >= 3
                        THEN 0 - Points(1)
                        ELSE TypeScore(groups[g].blocks[i])],
                   ContextBonus(groups[g].blocks), HeadingBonus(groups[g]))

(* C7 witness: one text three times, on blocks of different types in       *)
(* different groups, each of which would score above zero or zero by type. *)
C7_Witness ==
    /\ Done
    /\ \E g1, g2 \in GroupIds :
        /\ g1 # g2
        /\ \E i \in 1..Len(groups[g1].blocks), j \in 1..Len(groups[g2].blocks) :
            /\ groups[g1].blocks[i].text = groups[g2].blocks[j].text
            /\ groups[g1].blocks[i].type # groups[g2].blocks[j].type
            /\ OccurrencesOf(groups[g1].blocks[i].text) >= 3
            /\ TypeScore(groups[g1].blocks[i]) > 0

(* The contribution of a block by its type, in eightieths of a point.      *)
ByType(block) ==
    LET w == WordsIn(block.text)
        n == IF block.type = "list" THEN block.items
             ELSE IF block.type = "table" THEN block.rows
             ELSE block.definitions
        k == IF n = <<>> THEN 0 ELSE n[1]
    IN  CASE block.type = "paragraph" -> IF w >= 5 THEN Min(8 * w, 400) ELSE 0
          [] block.type = "list" -> 40 * k
          [] block.type = "image" -> 240
          [] block.type = "blockquote" -> 320
          [] block.type = "preformatted" -> 320
          [] block.type = "table" -> Min(240 + 24 * k, 800)
          [] block.type = "definition-list" -> Min(80 * k, 640)

(* C8: a non-repeated block contributes by type only: paragraph of w words *)
(* min(w/10, 5) if w >= 5 else 0; list 0.5 per item; image 3; blockquote   *)
(* 4; preformatted 4; table min(3 + 0.3 rows, 10); definition list         *)
(* min(definitions, 8).  Stated on the groups that hold no repeated text.  *)
C8_TypeScores ==
    Done => \A g \in GroupIds :
        (\A i \in 1..Len(groups[g].blocks) :
                OccurrencesOf(groups[g].blocks[i].text) < 3)
            => groups[g].score =
                    Settle([i \in 1..Len(groups[g].blocks) |-> ByType(groups[g].blocks[i])],
                           ContextBonus(groups[g].blocks), HeadingBonus(groups[g]))

(* C8 witness: both caps at work, a paragraph of more than 50 words next   *)
(* to a table of more than 23 rows.                                        *)
C8_Witness ==
    /\ Done
    /\ Len(groups) = 1
    /\ \E i, j \in 1..Len(groups[1].blocks) :
        /\ groups[1].blocks[i].type = "paragraph"
        /\ WordsIn(groups[1].blocks[i].text) > 50
        /\ groups[1].blocks[j].type = "table"
        /\ groups[1].blocks[j].rows # <<>> /\ groups[1].blocks[j].rows[1] > 23
    /\ groups[1].score = Points(15)

ContextsOf(blks) ==
    [i \in 1..Len(blks) |->
        IF blks[i].sourceContext = "undefined" THEN "body" ELSE blks[i].sourceContext]

(* The most frequent context, the first of main, article, body among the   *)
(* most frequent ones; main for no blocks.                                 *)
MostFrequentContext(blks) ==
    LET ctxs     == ContextsOf(blks)
        count(c) == Cardinality({i \in 1..Len(ctxs) : ctxs[i] = c})
        top(c)   == \A d \in {"main", "article", "body"} : count(c) >= count(d)
    IN  IF top("main") THEN "main" ELSE IF top("article") THEN "article" ELSE "body"

(* C9: the context bonus is +2 for main, +1.5 for article, 0 for body,     *)
(* by the most frequent sourceContext of the group's blocks (none counts   *)
(* as body; ties main, article, body; no blocks is main), added once.      *)
C9_ContextBonus ==
    Done => \A g \in GroupIds :
        LET rep == BuildRepetitionSet(groups)
            ctx == MostFrequentContext(groups[g].blocks)
        IN  groups[g].score =
                Settle([i \in 1..Len(groups[g].blocks) |->
                            BlockScore(groups[g].blocks[i], rep)],
                       IF ctx = "main" THEN 160 ELSE IF ctx = "article" THEN 120 ELSE 0,
                       HeadingBonus(groups[g]))

(* C9 witness: a group where main and article tie above body, and a group  *)
(* without blocks, in one result.                                          *)
C9_Witness ==
    /\ Done
    /\ \E g \in GroupIds :
        /\ CountContext(groups[g].blocks, "main") = CountContext(groups[g].blocks, "article")
        /\ CountContext(groups[g].blocks, "main") > CountContext(groups[g].blocks, "body")
    /\ \E g \in GroupIds : Len(groups[g].blocks) = 0 /\ groups[g].score >= Points(2)

(* C10: the final score is block scores + context bonus + 2 for a heading  *)
(* of 3 to 10 words, the whole total halved exactly when the group has     *)
(* blocks and strictly more than 60% of them scored zero or less.          *)
C10_FinalScore ==
    Done => \A g \in GroupIds :
        LET rep   == BuildRepetitionSet(groups)
            blks  == groups[g].blocks
            hw    == IF groups[g].heading = <<>> THEN 0
                     ELSE WordsIn(groups[g].heading[1].text)
            total == SumScores(blks, 1, rep) + ContextBonus(blks)
                        + (IF hw >= 3 /\ hw <= 10 THEN 160 ELSE 0)
            z     == Cardinality({i \in 1..Len(blks) : BlockScore(blks[i], rep) <= 0})
        IN  /\ (Len(blks) > 0 /\ 10 * z > 6 * Len(blks)) => 2 * groups[g].score = total
            /\ (Len(blks) = 0 \/ 10 * z <= 6 * Len(blks)) => groups[g].score = total

(* C10 witness: a headed group of five blocks, exactly three of them at    *)
(* zero or less, with the heading bonus and not halved.                    *)
C10_Witness ==
    /\ Done
    /\ \E g \in GroupIds :
        /\ groups[g].heading # <<>>
        /\ Len(groups[g].blocks) = 5
        /\ ZeroOrNegativeCount(groups[g].blocks, BuildRepetitionSet(groups)) = 3
        /\ HeadingBonus(groups[g]) > 0
        /\ groups[g].score = SumScores(groups[g].blocks, 1, BuildRepetitionSet(groups))
                                + ContextBonus(groups[g].blocks) + Points(2)
----------------------------------------------------------------------------
(* The extractor (src/src/extractor.ts 1-1104).                            *)
(*                                                                         *)
(* Texts and addresses are sequences of tokens.  A regular expression of   *)
(* the source is a sequence of slots read token by token: a slot is a pair *)
(* of the set of tokens it accepts and of its quantifier, "1", "?", "+" or *)
(* "*" (\d+ is one number token, \w+ is one or more word tokens).  A       *)
(* pattern with an optional group is given as the set of its expansions.   *)

MAX_DEPTH == 50

(* The tokens of the modelled pages, by their length in characters;       *)
(* "..." stands for the one-character ellipsis U+2026.                     *)
TokensOfLength ==
    [n \in {1, 2, 3, 4, 5, 6, 7, 11, 12, 45} |->
        CASE n = 1  -> {" ", "\n", "$", "%", "/", ".", ",", "!", "?", "#", ":",
                        "x", "2", "5", "g", "a", "b", "c", "d", "e", "f",
                        "h", "w", "..."}
          [] n = 2  -> {"to", "in", "us", "ea", "kg", "of", "99", "Go"}
          [] n = 3  -> {"add", "Add", "buy", "Buy", "now", "log", "see", "all",
                        "the", "out", "500", "our", "%2F"}
          [] n = 4  -> {"Home", "home", "Shop", "shop", "cart", "read", "Read",
                        "more", "news", "News", "team", "page", "docs", "Menu",
                        "Open", "open", "menu", "help", "tel:", "main", "site"}
          [] n = 5  -> {"about", "About", "today", "slide", "stars", "Limit",
                        "%252F", "data:", "blob:", "terms", "legal"}
          [] n = 6  -> {"https:", "footer", "Submit", "submit", "Search", "search"}
          [] n = 7  -> {"mailto:", "primary", "Contact"}
          [] n = 11 -> {"//site.test", "javascript:"}
          [] n = 12 -> {"//other.test"}
          [] n = 45 -> {"pneumonoultramicroscopicsilicovolcanoconiosis"}]

(* token.length                                                            *)
CharLen(token) == CHOOSE n \in DOMAIN TokensOfLength : token \in TokensOfLength[n]

(* text.length                                                             *)
RECURSIVE Chars(_)
Chars(text) == IF text = <<>> THEN 0 ELSE CharLen(Head(text)) + Chars(Tail(text))

(* token.toLowerCase() for the tokens that hold an upper-case letter, each *)
(* of them at its start                                                    *)
LowerOf ==
    [t \in {"Add", "Buy", "Home", "Shop", "Read", "News", "Menu", "Open",
            "About", "Limit", "Submit", "Contact", "Go", "Search"} |->
        CASE t = "Add" -> "add"     [] t = "Buy" -> "buy"
          [] t = "Home" -> "home"   [] t = "Shop" -> "shop"
          [] t = "Read" -> "read"   [] t = "News" -> "news"
          [] t = "Menu" -> "menu"   [] t = "Open" -> "open"
          [] t = "About" -> "about" [] t = "Limit" -> "limit"
          [] t = "Submit" -> "submit" [] t = "Contact" -> "contact"
          [] t = "Go" -> "go"       [] t = "Search" -> "search"]

(* text.toLowerCase()                                                      *)
ToLowerCase(text) ==
    [i \in 1..Len(text) |->
        IF text[i] \in DOMAIN LowerOf THEN LowerOf[text[i]] ELSE text[i]]

(* the tokens made of word characters (\w)                                 *)
WordTokens ==
    {t \in UNION {TokensOfLength[n] : n \in DOMAIN TokensOfLength}
              \cup {LowerOf[u] : u \in DOMAIN LowerOf} :
        /\ ~IsWhitespace(t)
        /\ t \notin {"$", "%", "/", ".", ",", "!", "?", "#", ":", "...", "%2F",
                     "%252F", "https:", "mailto:", "javascript:", "tel:",
                     "data:", "blob:", "//site.test", "//other.test"}}

(* text.replace(/\s+/g, " ")                                               *)
CollapseWhitespace(text) ==
    LET F[i \in 0..Len(text)] ==
            IF i = 0 THEN <<>>
            ELSE IF ~IsWhitespace(text[i]) THEN Append(F[i - 1], text[i])
            ELSE IF i = 1 \/ ~IsWhitespace(text[i - 1]) THEN Append(F[i - 1], " ")
            ELSE F[i - 1]
    IN  F[Len(text)]

(* text.includes(needle)                                                   *)
Includes(text, needle) ==
    \E i \in 0..(Len(text) - Len(needle)) :
        \A j \in 1..Len(needle) : text[i + j] = needle[j]

(* Matching from position i of the text and slot j of the pattern; toEnd   *)
(* is the pattern's closing $.                                             *)
RECURSIVE MatchFrom(_, _, _, _, _)
MatchFrom(text, i, pat, j, toEnd) ==
    IF j > Len(pat) THEN (~toEnd \/ i > Len(text))
    ELSE \/ pat[j][2] \in {"?", "*"} /\ MatchFrom(text, i, pat, j + 1, toEnd)
         \/ \E n \in 1..(Len(text) - i + 1) :
               /\ n = 1 \/ pat[j][2] \in {"+", "*"}
               /\ \A k \in i..(i + n - 1) : text[k] \in pat[j][1]
               /\ MatchFrom(text, i + n, pat, j + 1, toEnd)

(* PATTERN.test(text) for a pattern anchored at the start of the text and  *)
(* given as a set of [pat, toEnd, ci]: ci (the /i flag) has the lower-case *)
(* pattern tested on the lower-cased text.                                 *)
Matches(rules, text) ==
    \E r \in rules :
        MatchFrom(IF r.ci THEN ToLowerCase(text) ELSE text, 1, r.pat, 1, r.toEnd)
----------------------------------------------------------------------------
(* isNoiseText and isPromotionalParagraph                                  *)

NOISE_CHROME_STRINGS ==
    {<<"add">>, <<"ea">>, <<"kg">>,
     <<"add", " ", "to", " ", "list">>, <<"add", " ", "to", " ", "cart">>,
     <<"see", " ", "all">>, <<"view", " ", "all">>, <<"shop", " ", "now">>,
     <<"log", " ", "in">>, <<"register">>, <<"book", " ", "slot">>,
     <<"buy", " ", "now">>, <<"remove">>, <<"save">>, <<"qty">>,
     <<"select", " ", "unit", " ", "type">>,
     <<"log", " ", "in", " ", "or", " ", "register">>,
     <<"grab", " ", "them", " ", "while", " ", "they", " ", "last">>,
     <<"see", " ", "more">>, <<"book", " ", "your", " ", "slot">>,
     <<"learn", " ", "more">>, <<"read", " ", "more">>,
     <<"find", " ", "out", " ", "more">>, <<"view", " ", "more">>,
     <<"show", " ", "more">>, <<"load", " ", "more">>}

(* PRICE_PATTERN, UNIT_PRICE_PATTERN, MEASUREMENT_PATTERN,                 *)
(* MULTI_UNIT_PATTERN, LIMIT_PATTERN, REVIEW_PATTERN, PAGINATION_PATTERN   *)
(* and PRICE_PER_UNIT_PATTERN, in this order                               *)
NOISE_TEXT_PATTERNS ==
    LET rule(pat, toEnd, ci) == [pat |-> pat, toEnd |-> toEnd, ci |-> ci]
        one(token) == <<{token}, "1">>
        digits == {"2", "5", "99", "500"}
        num == <<digits, "1">>
        numOpt == <<digits, "?">>
        decimal == <<num, one("."), num>>
        gap == <<{" ", "\n", "\t"}, "*">>
        space == <<{" ", "\n", "\t"}, "+">>
        word == <<WordTokens, "+">>
        unit == <<{"g", "kg", "mg", "ml", "l", "pk", "sheets", "mm", "cm", "m",
                   "oz", "lb"}, "1">>
        price == <<<<{"$"}, "?">>, num, <<{".", ","}, "?">>, numOpt>>
        outOf == <<space, one("out"), one(" "), one("of"), one(" "), num, space,
                   one("stars")>>
    IN  {rule(price, TRUE, FALSE),
         rule(price \o <<one("%")>>, TRUE, FALSE),
         rule(price \o <<one("/"), numOpt, word>>, TRUE, FALSE),
         rule(<<one("$"), num, one("."), <<{d \in digits : CharLen(d) = 2}, "1">>,
                one("/"), word>>, TRUE, FALSE),
         rule(<<num, gap, unit>>, TRUE, TRUE),
         rule(decimal \o <<gap, unit>>, TRUE, TRUE),
         rule(<<num, gap, one("x"), gap, num, gap, word>>, TRUE, TRUE),
         rule(<<one("limit"), one(" "), num>>, FALSE, TRUE),
         rule(<<num>> \o outOf, FALSE, TRUE),
         rule(decimal \o outOf, FALSE, TRUE),
         rule(<<num, gap, one("/"), gap, num>>, TRUE, FALSE),
         rule(<<one("$")>> \o decimal \o <<gap, one("/"), gap, numOpt, gap, word>>,
              TRUE, FALSE)}

SLIDE_CONTROL_PATTERN ==
    {[pat |-> <<<<{"go"}, "1">>, <<{" "}, "1">>, <<{"to"}, "1">>, <<{" "}, "1">>,
                <<{"slide"}, "1">>>>, toEnd |-> FALSE, ci |-> TRUE],
     [pat |-> <<<<{"previous", "next"}, "1">>, <<{" "}, "1">>, <<{"slide"}, "1">>>>,
      toEnd |-> FALSE, ci |-> TRUE]}

isNoiseText(text) ==
    LET t == Trim(text)
    IN  \/ t = <<>>
        \/ Chars(t) <= 2
        \/ ToLowerCase(t) \in NOISE_CHROME_STRINGS
        \/ Matches(NOISE_TEXT_PATTERNS, t)

(* the verbs of PROMOTIONAL_PATTERN, each followed by a word boundary: the *)
(* end of the text or a token that is no word                              *)
PROMOTIONAL_PATTERN ==
    LET verbs == {<<v>> : v \in {"grab", "shop", "buy", "order", "get", "book",
                                "discover", "explore", "browse", "find", "view",
                                "see", "start", "try", "save", "hurry"}}
                    \cup {<<"check", " ", "out">>, <<"don't", " ", "miss">>}
        boundary == <<(UNION {TokensOfLength[n] : n \in DOMAIN TokensOfLength})
                          \ WordTokens, "1">>
        slots(verb) == [i \in 1..Len(verb) |-> <<{verb[i]}, "1">>]
    IN  {[pat |-> slots(v), toEnd |-> TRUE, ci |-> TRUE] : v \in verbs}
        \cup {[pat |-> Append(slots(v), boundary), toEnd |-> FALSE, ci |-> TRUE] :
                 v \in verbs}

MARKETING_KEYWORDS ==
    <<
      <<"shop", " ", "online">>, <<"your", " ", "local", " ", "store">>,
      <<"personal", " ", "shoppers">>, <<"at", " ", "your", " ", "fingertips">>,
      <<"your", " ", "door">>, <<"suits", " ", "you">>,
      <<"start", " ", "shopping">>, <<"online", " ", "grocery">>,
      <<"fingertips">>, <<"straight", " ", "to", " ", "your">>,
      <<"pick", " ", "your", " ", "items">>, <<"download", " ", "the", " ", "app">>
    >>

(* today or now after a word boundary, then ".", "!" as the pattern allows *)
CTA_ENDING_PATTERN ==
    {[pat |-> <<<<{"today", "now"}, "1">>, <<{"!"}, "?">>, <<{"."}, "?">>,
                <<{"!"}, "?">>>>, toEnd |-> TRUE, ci |-> TRUE]}

isPromotionalParagraph(text) ==
    LET t == Trim(text)
        tLower == ToLowerCase(t)
        wordCount == SplitCount(t)
        keywordHits == Cardinality({k \in 1..Len(MARKETING_KEYWORDS) :
                                        Includes(tLower, MARKETING_KEYWORDS[k])})
        ctaEnding == \E i \in 1..Len(t) :
                        /\ i = 1 \/ t[i - 1] \notin WordTokens
                        /\ Matches(CTA_ENDING_PATTERN, SubSeq(t, i, Len(t)))
    IN  \/ wordCount <= 10 /\ Matches(PROMOTIONAL_PATTERN, t)
        \/ wordCount = 1 /\ t # <<>> /\ t[1] \in DOMAIN LowerOf
        \/ wordCount <= 30 /\ keywordHits >= 2
        \/ wordCount <= 30 /\ ctaEnding
----------------------------------------------------------------------------
(* Addresses.  doc.URL and document.baseURI are DocumentUrl; an address is *)
(* its scheme, its host and the tokens of its path.                        *)

DocumentUrl == <<"https:", "//site.test", "/", "page">>

(* new URL(url).origin of an http(s) address                               *)
OriginOf(url) == SubSeq(url, 1, 2)

(* url.replace(/#.*$/, "")                                                 *)
WithoutFragment(url) ==
    LET marks == {i \in 1..Len(url) : url[i] = "#"}
    IN  IF marks = {} THEN url
        ELSE SubSeq(url, 1, (CHOOSE i \in marks : \A j \in marks : i <= j) - 1)

(* anchor.href, form.action: the attribute resolved by the host against    *)
(* the base address.                                                       *)
HostResolve(raw) ==
    IF raw = <<>> THEN DocumentUrl
    ELSE IF Head(raw) \in {"https:", "http:", "mailto:", "javascript:", "tel:",
                           "data:", "blob:"} THEN raw
    ELSE IF Head(raw) = "#" THEN WithoutFragment(DocumentUrl) \o raw
    ELSE IF Head(raw) = "/" THEN OriginOf(DocumentUrl) \o raw
    ELSE OriginOf(DocumentUrl) \o <<"/">> \o raw

(* absoluteUrl: decodeURIComponent on the path of an http(s) address       *)
absoluteUrl(href) ==
    IF href # <<>> /\ Head(href) \in {"https:", "http:"}
    THEN LET path == WithoutFragment(href)
             decoded(token) == IF token = "%2F" THEN "/"
                               ELSE IF token = "%252F" THEN "%2F" ELSE token
         IN  [i \in 1..Len(href) |->
                 IF i > 2 /\ i <= Len(path) THEN decoded(href[i]) ELSE href[i]]
    ELSE href

----------------------------------------------------------------------------
(* The document tree.  A node is an element or a text node (tag "#text");  *)
(* optional attributes are sequences of length 0 or 1.  hidden is the      *)
(* answer of isHidden, faulty marks an element on which the host's         *)
(* getComputedStyle fails, frame holds the body of an embedded document    *)
(* and denied marks a frame whose contentDocument cannot be read; current *)
(* is aria-current="page".                                                 *)

Element(tag, children) ==
    [tag |-> tag, role |-> "", cls |-> "", hidden |-> FALSE, faulty |-> FALSE,
     label |-> <<>>, href |-> <<>>, action |-> <<>>, alt |-> <<>>,
     type |-> "", name |-> "", value |-> <<>>, text |-> <<>>, children |-> children,
     shadow |-> <<>>, frame |-> <<>>, denied |-> FALSE, current |-> FALSE]

IsElement(node) == node.tag # "#text"

(* el.children                                                             *)
ChildElements(el) == SelectSeq(el.children, IsElement)

(* el.getAttribute("aria-label")?.trim(), "" when absent                   *)
AriaLabel(el) == IF el.label = <<>> THEN <<>> ELSE Trim(el.label[1])

isHidden(el) == el.hidden
isVisible(el) == ~isHidden(el)
isPresentational(el) == el.role \in {"presentation", "none"}

(* NOISE_PATTERNS tested on the class name                                 *)
isNoisyElement(el) ==
    el.cls \in {"cookie", "consent", "banner", "modal", "popup", "social",
                "share", "sidebar", "related", "newsletter", "subscribe",
                "widget", "promo", "price", "cart", "basket", "checkout",
                "rating", "stock", "sku"}

LIVE_REGION_ROLES == {"alert", "status", "log", "marquee", "timer"}

BLOCK_TAGS == {"address", "article", "aside", "blockquote", "details", "dialog",
               "dd", "div", "dl", "dt", "fieldset", "figcaption", "figure",
               "footer", "form", "h1", "h2", "h3", "h4", "h5", "h6", "header",
               "hgroup", "hr", "li", "main", "nav", "ol", "p", "pre", "section",
               "table", "ul", "tr", "td", "th"}

SKIP_TAGS == {"nav", "form", "script", "style", "link", "meta", "noscript",
              "svg", "dialog", "template", "canvas", "video", "audio", "aside",
              "header", "footer", "button"}

(* parseInt(tag[1], 10) for the tags that match /^h[1-6]$/                 *)
LevelOf == [tag \in {"h1", "h2", "h3", "h4", "h5", "h6"} |->
               CASE tag = "h1" -> 1 [] tag = "h2" -> 2 [] tag = "h3" -> 3
                 [] tag = "h4" -> 4 [] tag = "h5" -> 5 [] tag = "h6" -> 6]

(* node.textContent                                                        *)
RECURSIVE textContent(_)
textContent(node) ==
    IF ~IsElement(node) THEN node.text
    ELSE LET F[i \in 0..Len(node.children)] ==
                 IF i = 0 THEN <<>> ELSE F[i - 1] \o textContent(node.children[i])
         IN  F[Len(node.children)]

(* extractText: walk(node, depth) with the parts pushed so far, joined     *)
RECURSIVE TextWalk(_, _, _)
TextWalk(node, depth, parts) ==
    IF depth > MAX_DEPTH THEN parts
    ELSE IF ~IsElement(node)
         THEN IF Trim(node.text) # <<>> THEN parts \o node.text ELSE parts
    ELSE IF isHidden(node) \/ node.tag \in {"style", "script"} THEN parts
    ELSE LET isBlock == node.tag \in BLOCK_TAGS \/ node.tag = "br"
             opened == IF isBlock /\ parts # <<>> THEN Append(parts, " ") ELSE parts
             nodes == IF node.shadow # <<>> THEN node.shadow[1] ELSE node.children
             F[i \in 0..Len(nodes)] ==
                 IF i = 0 THEN opened ELSE TextWalk(nodes[i], depth + 1, F[i - 1])
             inner == F[Len(nodes)]
         IN  IF isBlock /\ inner # <<>> THEN Append(inner, " ") ELSE inner

extractText(el) == Trim(CollapseWhitespace(TextWalk(el, 0, <<>>)))

----------------------------------------------------------------------------
(* Queries.  An entry is an element with its ancestors inside its own      *)
(* tree, outermost first (closest and the descendant combinator stay       *)
(* inside one tree).                                                       *)

(* parent.querySelectorAll("*") for the child nodes of a parent            *)
RECURSIVE LightTree(_, _)
LightTree(nodes, up) ==
    IF nodes = <<>> THEN <<>>
    ELSE LET n == Head(nodes)
         IN  (IF IsElement(n)
              THEN <<[el |-> n, up |-> up]>> \o LightTree(n.children, Append(up, n))
              ELSE <<>>)
             \o LightTree(Tail(nodes), up)

(* deepQueryAll(root, "*") over the nodes of a root: the matches of the    *)
(* light tree, then those of every shadow root found in it, host by host.  *)
RECURSIVE Collect(_)
Collect(nodes) ==
    LET light == LightTree(nodes, <<>>)
        F[i \in 0..Len(light)] ==
            IF i = 0 THEN light
            ELSE IF light[i].el.shadow # <<>>
                 THEN F[i - 1] \o Collect(light[i].el.shadow[1])
                 ELSE F[i - 1]
    IN  F[Len(light)]

deepQueryAll(document) == Collect(<<document.body>>)

(* entry.el.closest(selector) !== null for a selector that lists tags and  *)
(* roles                                                                   *)
Closest(entry, tags, roles) ==
    \/ entry.el.tag \in tags \/ entry.el.role \in roles
    \/ \E i \in 1..Len(entry.up) :
          entry.up[i].tag \in tags \/ entry.up[i].role \in roles

(* the entry lies under an element with one of the tags, roles or classes  *)
(* (the descendant combinator)                                             *)
Inside(entry, tags, roles, classes) ==
    \E i \in 1..Len(entry.up) :
        \/ entry.up[i].tag \in tags \/ entry.up[i].role \in roles
        \/ entry.up[i].cls \in classes

IsAnchor(el) == el.tag = "a" /\ el.href # <<>>
IsLink(el) == (el.tag = "a" \/ el.role = "link") /\ el.href # <<>>
IsForm(el) == el.tag = "form"
IsNav(el) == el.tag = "nav" \/ el.role = "navigation"

extractHeadings(document) ==
    LET all == deepQueryAll(document)
        F[i \in 0..Len(all)] ==
            IF i = 0 THEN <<>>
            ELSE LET el == all[i].el
                 IN  IF el.tag \in DOMAIN LevelOf /\ isVisible(el)
                        /\ extractText(el) # <<>>
                     THEN Append(F[i - 1], [level |-> LevelOf[el.tag],
                                            text |-> extractText(el)])
                     ELSE F[i - 1]
    IN  F[Len(all)]
----------------------------------------------------------------------------
(* extractNavLinks                                                         *)

PRIMARY_NAV_LABELS == {"primary", "main", "site", "global", "top"}
SECONDARY_NAV_LABELS == {"footer", "secondary", "legal", "social", "breadcrumb",
                         "utility", "meta", "supplementary"}

(* LABELS.test(getNavLabel(nav)): one of the words occurs in the label     *)
NavLabelHas(nav, words) ==
    nav.label # <<>> /\ \E i \in 1..Len(nav.label[1]) :
                            ToLowerCase(nav.label[1])[i] \in words

(* the resolved address of an anchor                                       *)
HrefOf(el) == absoluteUrl(HostResolve(el.href[1]))

(* seen.has(key)                                                           *)
SeenNever(seen, key) == FALSE

Seen(seen, key) == key \in seen

(* extractText(anchor) || anchor.getAttribute("aria-label") || href        *)
AnchorText(el) ==
    IF extractText(el) # <<>> THEN extractText(el)
    ELSE IF el.label # <<>> /\ el.label[1] # <<>> THEN el.label[1]
    ELSE HrefOf(el)

(* /%25/.test(rawHref)                                                     *)
DoubleEncoded(rawHref) == \E i \in 1..Len(rawHref) : rawHref[i] = "%252F"

(* collectFromAnchors over the anchors from position i, with the seen set  *)
(* shared by the tiers: the result and the set afterwards.                 *)
RECURSIVE collectFromAnchors(_, _, _, _)
collectFromAnchors(anchors, i, result, seen) ==
    IF i > Len(anchors) THEN [result |-> result, seen |-> seen]
    ELSE LET el == anchors[i].el
             href == HrefOf(el)
             text == AnchorText(el)
         IN  IF Seen(seen, href) THEN collectFromAnchors(anchors, i + 1, result, seen)
             ELSE IF \/ text = href
                     \/ Len(text) >= 2 /\ text[1] \in {"https:", "http:"}
                        /\ text[2] \in {"//site.test", "//other.test"}
                     \/ DoubleEncoded(el.href[1])
                     \/ Head(href) \in {"https:", "http:"}
                        /\ OriginOf(href) # OriginOf(DocumentUrl)
                  THEN collectFromAnchors(anchors, i + 1, result, seen \cup {href})
                  ELSE collectFromAnchors(anchors, i + 1,
                          Append(result, [text |-> text, href |-> href,
                                          isCurrent |-> el.current]),
                          seen \cup {href})

(* The anchors each tier examines: the navs with a primary label, the     *)
(* other navs of the header that have no secondary label, the remaining    *)
(* navs outside the footer, and the anchors of menu-like containers.       *)
TierAnchors(document) ==
    LET all == deepQueryAll(document)
        primary(e) == IsNav(e.el) /\ NavLabelHas(e.el, PRIMARY_NAV_LABELS)
        secondary(e) == NavLabelHas(e.el, SECONDARY_NAV_LABELS)
        header(e) == /\ IsNav(e.el) /\ ~primary(e) /\ ~secondary(e)
                     /\ Closest(e, {"header"}, {"banner"})
        other(e) == /\ IsNav(e.el) /\ ~primary(e) /\ ~header(e) /\ ~secondary(e)
                    /\ ~Closest(e, {"footer"}, {"contentinfo"})
        anchorsOf(e) == SelectSeq(LightTree(e.el.children, Append(e.up, e.el)),
                                  LAMBDA a : IsAnchor(a.el))
        flat(navs) == LET F[i \in 0..Len(navs)] ==
                              IF i = 0 THEN <<>> ELSE F[i - 1] \o anchorsOf(navs[i])
                      IN  F[Len(navs)]
    IN  <<flat(SelectSeq(all, primary)),
          flat(SelectSeq(all, header)),
          flat(SelectSeq(all, other)),
          SelectSeq(all, LAMBDA e :
              /\ IsAnchor(e.el)
              /\ Inside(e, {"header"}, {"menu", "menubar", "banner"},
                        {"nav", "menu", "navigation"}))>>

(* the tiers tried in turn while no link has been collected                *)
RECURSIVE NavTiers(_, _, _)
NavTiers(tiers, t, seen) ==
    IF t > Len(tiers) THEN <<>>
    ELSE LET r == collectFromAnchors(tiers[t], 1, <<>>, seen)
         IN  IF Len(r.result) # 0 THEN r.result ELSE NavTiers(tiers, t + 1, r.seen)

extractNavLinks(document) == NavTiers(TierAnchors(document), 1, {})

----------------------------------------------------------------------------
(* extractLinks, extractForms, extractButtons                              *)

LINK_TEXT_MAX == 120

(* cleanLinkText.  The pages hold no unbroken run of more than             *)
(* LINK_TEXT_MAX characters, so the cut falls after a whole token or       *)
(* inside the word that the trailing \s+\S*$ removes.                      *)
cleanLinkText(text) ==
    LET cleaned == Trim(CollapseWhitespace(text))
        ends == {i \in 1..(Len(cleaned) - 1) :
                    cleaned[i] \in {".", "!", "?"} /\ IsWhitespace(cleaned[i + 1])}
        first == CHOOSE i \in ends : \A j \in ends : i <= j
        sentenceEnd == Chars(SubSeq(cleaned, 1, first)) - 1
        gaps == {i \in 1..Len(cleaned) :
                    IsWhitespace(cleaned[i]) /\ Chars(SubSeq(cleaned, 1, i)) <= LINK_TEXT_MAX}
        whole == {i \in 0..Len(cleaned) : Chars(SubSeq(cleaned, 1, i)) <= LINK_TEXT_MAX}
        last(set) == CHOOSE i \in set : \A j \in set : j <= i
    IN  IF Chars(cleaned) <= LINK_TEXT_MAX THEN cleaned
        ELSE IF ends # {} /\ sentenceEnd > 0 /\ sentenceEnd < LINK_TEXT_MAX
             THEN SubSeq(cleaned, 1, first)
        ELSE IF gaps # {} THEN Append(SubSeq(cleaned, 1, last(gaps) - 1), "...")
        ELSE Append(SubSeq(cleaned, 1, last(whole)), "...")

(* the rules on the target that come before the seen set                   *)
LinkTargetRejectedNavKept(el, navHrefs) ==
    LET rawHref == el.href[1]
        href == HrefOf(el)
    IN  \/ rawHref # <<>> /\ Head(rawHref) = "#"
        \/ DoubleEncoded(rawHref)
        \/ WithoutFragment(href) = WithoutFragment(DocumentUrl)
        \/ Head(href) \in {"javascript:", "tel:", "mailto:", "data:", "blob:"}

LinkTargetRejected(el, navHrefs) ==
    LET rawHref == el.href[1]
        href == HrefOf(el)
    IN  \/ rawHref # <<>> /\ Head(rawHref) = "#"
        \/ DoubleEncoded(rawHref)
        \/ WithoutFragment(href) = WithoutFragment(DocumentUrl)
        \/ href \in navHrefs
        \/ Head(href) \in {"javascript:", "tel:", "mailto:", "data:", "blob:"}

LinkText(el) == cleanLinkText(AnchorText(el))

(* the rules on the text that come between the two seen sets               *)
LinkTextRejected(el, contentTexts) ==
    LET text == LinkText(el)
    IN  \/ text = HrefOf(el) \/ text = el.href[1]
        \/ isNoiseText(text)
        \/ ToLowerCase(text) \in NOISE_CHROME_STRINGS
        \/ isPromotionalParagraph(text)
        \/ Matches(SLIDE_CONTROL_PATTERN, text)
        \/ \E ct \in contentTexts :
               \/ Includes(ToLowerCase(ct), ToLowerCase(text))
               \/ Includes(ToLowerCase(text), ToLowerCase(ct))

RECURSIVE LinksLoop(_, _, _, _, _, _, _)
LinksLoop(all, i, contentTexts, navHrefs, links, seen, seenText) ==
    IF i > Len(all) THEN links
    ELSE LET el == all[i].el
             skip == LinksLoop(all, i + 1, contentTexts, navHrefs, links, seen, seenText)
         IN  IF ~IsLink(el) \/ ~isVisible(el) \/ LinkTargetRejected(el, navHrefs)
                \/ Seen(seen, HrefOf(el))
             THEN skip
             ELSE IF LinkTextRejected(el, contentTexts)
                     \/ Seen(seenText, ToLowerCase(LinkText(el)))
                  THEN LinksLoop(all, i + 1, contentTexts, navHrefs, links,
                                 seen \cup {HrefOf(el)}, seenText)
                  ELSE LinksLoop(all, i + 1, contentTexts, navHrefs,
                          Append(links, [text |-> LinkText(el), href |-> HrefOf(el),
                                         isFooter |-> Closest(all[i], {"footer"},
                                                              {"contentinfo"})]),
                          seen \cup {HrefOf(el)},
                          seenText \cup {ToLowerCase(LinkText(el))})

extractLinks(document, contentTexts, navHrefs) ==
    LinksLoop(deepQueryAll(document), 1, contentTexts, navHrefs, <<>>, {}, {})

(* form.action ? absoluteUrl(form.action) : "" -- the host answers "" or   *)
(* the resolved attribute.                                                 *)
FormAction(el) ==
    IF el.action = <<>> THEN <<>> ELSE absoluteUrl(HostResolve(el.action[1]))

(* getAccessibleName on pages without aria-labelledby, label elements and  *)
(* title attributes: the aria-label, else the text content.                *)
getAccessibleName(el) ==
    IF AriaLabel(el) # <<>> THEN AriaLabel(el) ELSE Trim(textContent(el))

(* the fields of a form: its visible controls that are not of type hidden  *)
FormFields(entry) ==
    LET inner == LightTree(entry.el.children, <<>>)
        F[i \in 0..Len(inner)] ==
            IF i = 0 THEN <<>>
            ELSE LET el == inner[i].el
                     type == IF el.tag \in {"textarea", "select"} THEN el.tag
                             ELSE IF el.type # "" THEN el.type ELSE "text"
                 IN  IF /\ el.tag \in {"input", "select", "textarea"}
                        /\ isVisible(el) /\ type # "hidden"
                     THEN Append(F[i - 1], [type |-> type, label |-> getAccessibleName(el)])
                     ELSE F[i - 1]
    IN  F[Len(inner)]

(* seenActions.has(action), asked for a non-empty action only              *)
ActionSeenNever(seenActions, action) == FALSE

ActionSeen(seenActions, action) == action # <<>> /\ action \in seenActions

RECURSIVE FormsLoop(_, _, _, _)
FormsLoop(all, i, forms, seenActions) ==
    IF i > Len(all) THEN forms
    ELSE LET el == all[i].el
             action == FormAction(el)
         IN  IF ~IsForm(el) \/ ~isVisible(el) \/ ActionSeen(seenActions, action)
             THEN FormsLoop(all, i + 1, forms, seenActions)
             ELSE FormsLoop(all, i + 1,
                     Append(forms, [action |-> action,
                                    label |-> AriaLabel(el),
                                    fields |-> FormFields(all[i])]),
                     IF action # <<>> THEN seenActions \cup {action} ELSE seenActions)

extractForms(document) == FormsLoop(deepQueryAll(document), 1, <<>>, {})

IsButton(el) ==
    \/ el.tag = "button"
    \/ el.tag = "input" /\ el.type \in {"submit", "button", "reset"}
    \/ el.role = "button"

(* el.value || el.type for an input, getAccessibleName(el) otherwise       *)
ButtonText(el) ==
    IF el.tag = "input"
    THEN IF el.value # <<>> /\ el.value[1] # <<>> THEN el.value[1] ELSE <<el.type>>
    ELSE getAccessibleName(el)

(* the rules a button's text goes through before the seen set              *)
ButtonTextRejectedNever(text) == FALSE

ButtonTextRejected(text) ==
    \/ text = <<>>
    \/ isNoiseText(text)
    \/ ToLowerCase(text) \in NOISE_CHROME_STRINGS
    \/ Matches(SLIDE_CONTROL_PATTERN, text)

RECURSIVE ButtonsLoop(_, _, _, _)
ButtonsLoop(all, i, buttons, seenText) ==
    IF i > Len(all) THEN buttons
    ELSE LET el == all[i].el
             text == ButtonText(el)
         IN  IF \/ ~IsButton(el) \/ ~isVisible(el) \/ Closest(all[i], {"form"}, {})
                \/ ButtonTextRejected(text)
                \/ Seen(seenText, ToLowerCase(text))
             THEN ButtonsLoop(all, i + 1, buttons, seenText)
             ELSE ButtonsLoop(all, i + 1,
                     Append(buttons,
                        [text |-> text,
                         type |-> IF el.tag = "button"
                                  THEN (IF el.type # "" THEN el.type ELSE "submit")
                                  ELSE IF el.tag = "input" THEN el.type
                                  ELSE "button"]),
                     seenText \cup {ToLowerCase(text)})

extractButtons(document) == ButtonsLoop(deepQueryAll(document), 1, <<>>, {})

----------------------------------------------------------------------------
(* extractContentBlocks.  A block of the extractor keeps its arrays        *)
(* (items, rows, definitions, headers) whole, each as an optional field.   *)

ContentBlock(type, text, ctx) ==
    [type |-> type, text |-> text, level |-> <<>>, items |-> <<>>, rows |-> <<>>,
     definitions |-> <<>>, headers |-> <<>>, alt |-> <<>>, sourceContext |-> ctx]

(* the texts of a sequence of elements                                     *)
TextsOfElements(els) == [i \in 1..Len(els) |-> extractText(els[i])]

(* parts.join(separator)                                                   *)
RECURSIVE Join(_, _)
Join(parts, separator) ==
    IF parts = <<>> THEN <<>>
    ELSE IF Len(parts) = 1 THEN parts[1]
    ELSE parts[1] \o separator \o Join(Tail(parts), separator)

(* the surviving items of a list, every direct li child kept               *)
ListItemsUnfiltered(el) ==
    TextsOfElements(SelectSeq(ChildElements(el), LAMBDA c : c.tag = "li"))

(* the surviving items of a list                                           *)
ListItems(el) ==
    SelectSeq(TextsOfElements(SelectSeq(ChildElements(el), LAMBDA c : c.tag = "li")),
              LAMBDA t : t # <<>> /\ ~isNoiseText(t))

(* The pairs of a description list read from child i on: each dt with the  *)
(* run of dd elements that follows it.                                     *)
RECURSIVE DefinitionsLoop(_, _, _)
DefinitionsLoop(children, i, defs) ==
    IF i > Len(children) THEN defs
    ELSE IF children[i].tag # "dt" THEN DefinitionsLoop(children, i + 1, defs)
    ELSE LET stops == {k \in (i + 1)..(Len(children) + 1) :
                          k > Len(children) \/ children[k].tag # "dd"}
             stop == CHOOSE k \in stops : \A j \in stops : k <= j
             term == extractText(children[i])
             descParts == SelectSeq(TextsOfElements(SubSeq(children, i + 1, stop - 1)),
                                    LAMBDA t : t # <<>>)
         IN  DefinitionsLoop(children, stop,
                IF term # <<>> /\ Len(descParts) > 0 /\ ~isNoiseText(term)
                THEN Append(defs, [term |-> term,
                                   description |-> Join(descParts, <<" ">>)])
                ELSE defs)

(* el.querySelectorAll(tag) inside an element                              *)
Within(el, tags) ==
    SelectSeq(LightTree(el.children, <<>>), LAMBDA e : e.el.tag \in tags)

(* The table branch: the headers, the surviving rows (tbody tr and         *)
(* :scope > tr) and the summary text; no block without a surviving row.    *)
TableBlock(el, ctx) ==
    LET texts(entries) == [i \in 1..Len(entries) |-> extractText(entries[i].el)]
        inHead == SelectSeq(Within(el, {"th"}),
                            LAMBDA e : Inside(e, {"thead"}, {}, {}))
        allRows == Within(el, {"tr"})
        headers == IF Len(inHead) > 0 THEN texts(inHead)
                   ELSE IF Len(allRows) > 0 THEN texts(Within(allRows[1].el, {"th"}))
                   ELSE <<>>
        trs == SelectSeq(allRows,
                   LAMBDA e : Inside(e, {"tbody"}, {}, {}) \/ e.up = <<>>)
        F[i \in 0..Len(trs)] ==
            IF i = 0 THEN <<>>
            ELSE LET cells == texts(Within(trs[i].el, {"td"}))
                 IN  IF \/ Len(cells) = 0
                        \/ \A c \in 1..Len(cells) : cells[c] = <<>> \/ isNoiseText(cells[c])
                     THEN F[i - 1] ELSE Append(F[i - 1], cells)
        rows == F[Len(trs)]
        captions == Within(el, {"caption"})
        summary == IF Len(captions) > 0 THEN extractText(captions[1].el)
                   ELSE IF Len(headers) > 0
                        THEN <<"Table", ":", " ">> \o Join(headers, <<",", " ">>)
                   ELSE <<"Table", " ", "with", " ", ToString(Len(rows)), " ", "rows">>
    IN  IF Len(rows) > 0
        THEN <<[type |-> "table", text |-> summary, level |-> <<>>, items |-> <<>>,
                rows |-> <<rows>>, definitions |-> <<>>,
                headers |-> IF Len(headers) > 0 THEN <<headers>> ELSE <<>>,
                alt |-> <<>>, sourceContext |-> ctx]>>
        ELSE <<>>

(* img.alt?.trim()                                                         *)
AltOf(img) == IF img.alt = <<>> THEN <<>> ELSE Trim(img.alt[1])

(* the display text of a figure with an image                              *)
FigureText(el) ==
    LET captions == Within(el, {"figcaption"})
        captionText == IF Len(captions) > 0 THEN extractText(captions[1].el) ELSE <<>>
    IN  IF captionText # <<>> THEN captionText ELSE AltOf(Within(el, {"img"})[1].el)

(* The result of a walk: the blocks, or threw when a host failure left it. *)
Returned(blks) == [blocks |-> blks, threw |-> FALSE]
Thrown == [blocks |-> <<>>, threw |-> TRUE]

(* the paragraph of an element: its text, if it is non-empty and passes    *)
(* isNoiseText and isPromotionalParagraph                                  *)
Paragraph(el, ctx) ==
    LET text == extractText(el)
    IN  IF text # <<>> /\ ~isNoiseText(text) /\ ~isPromotionalParagraph(text)
        THEN <<ContentBlock("paragraph", text, ctx)>> ELSE <<>>

(* text && !knownHeadings.has(text)                                        *)
HeadingKept(text, knownHeadings) == text # <<>> /\ text \notin knownHeadings

(* depth > MAX_DEPTH                                                       *)
TooDeepNever(depth) == FALSE

TooDeep(depth) == depth > MAX_DEPTH

(* the loop goes on after a turn: a turn that threw ends the walk, and the  *)
(* blocks of the turns that returned are pushed in order                   *)
Continue(turn, rest) ==
    IF turn.threw \/ rest.threw THEN Thrown
    ELSE Returned(turn.blocks \o rest.blocks)

(* extractContentBlocks(root, knownHeadings, sourceContext, depth), the    *)
(* root given by its child nodes; Classify is one turn of its loop.        *)
RECURSIVE extractContentBlocks(_, _, _, _)
RECURSIVE ChildLoop(_, _, _, _)
RECURSIVE DetailsLoop(_, _, _, _)
RECURSIVE Classify(_, _, _, _)

extractContentBlocks(nodes, knownHeadings, sourceContext, depth) ==
    IF TooDeep(depth) THEN Returned(<<>>)
    ELSE ChildLoop(SelectSeq(nodes, IsElement), knownHeadings, sourceContext, depth)

ChildLoop(children, knownHeadings, sourceContext, depth) ==
    IF children = <<>> THEN Returned(<<>>)
    ELSE Continue(Classify(Head(children), knownHeadings, sourceContext, depth),
                  ChildLoop(Tail(children), knownHeadings, sourceContext, depth))

DetailsLoop(detailChildren, knownHeadings, childContext, depth) ==
    IF detailChildren = <<>> THEN Returned(<<>>)
    ELSE Continue(IF Head(detailChildren).tag = "summary" THEN Returned(<<>>)
                  ELSE extractContentBlocks(Head(detailChildren).children,
                                            knownHeadings, childContext, depth + 1),
                  DetailsLoop(Tail(detailChildren), knownHeadings, childContext,
                              depth))

Classify(child, knownHeadings, sourceContext, depth) ==
    LET tag == child.tag
        childContext == IF tag = "article" THEN "article" ELSE sourceContext
        block(type, text) ==
            IF text # <<>> THEN <<ContentBlock(type, text, childContext)>> ELSE <<>>
        heading(text, level) ==
            IF HeadingKept(text, knownHeadings)
            THEN <<[ContentBlock("heading", text, childContext)
                      EXCEPT !.level = <<level>>]>>
            ELSE <<>>
        list(items) ==
            IF Len(items) > 0
            THEN <<[ContentBlock("list", <<>>, childContext) EXCEPT !.items = <<items>>]>>
            ELSE <<>>
        definitionList(defs) ==
            IF Len(defs) > 0
            THEN <<[ContentBlock("definition-list",
                                 Join([i \in 1..Len(defs) |->
                                          defs[i].term \o <<":", " ">>
                                              \o defs[i].description],
                                      <<";", " ">>),
                                 childContext)
                      EXCEPT !.definitions = <<defs>>]>>
            ELSE <<>>
        image(text) ==
            IF text # <<>>
            THEN <<[ContentBlock("image", text, childContext) EXCEPT !.alt = <<text>>]>>
            ELSE <<>>
        firstImage(imgs) == IF Len(imgs) > 0 THEN AltOf(imgs[1].el) ELSE <<>>
        caught(r) == IF r.threw THEN Returned(<<>>) ELSE r
        deeper(nodes) == extractContentBlocks(nodes, knownHeadings, childContext, depth + 1)
        (* the body of the loop, by the first of its rules that applies *)
        Apply(rule) ==
            CASE rule = "fails" -> Thrown
              [] rule \in {"excluded", "skipped"} -> Returned(<<>>)
              [] rule = "heading" -> Returned(heading(extractText(child), LevelOf[tag]))
              [] rule \in {"p", "leaf"} -> Returned(Paragraph(child, childContext))
              [] rule \in {"ul", "ol"} -> Returned(list(ListItems(child)))
              [] rule = "dl" ->
                    Returned(definitionList(DefinitionsLoop(ChildElements(child), 1, <<>>)))
              [] rule = "blockquote" -> Returned(block("blockquote", extractText(child)))
              [] rule = "pre" -> Returned(block("preformatted", extractText(child)))
              [] rule = "table" -> Returned(TableBlock(child, childContext))
              [] rule = "figure-img" -> Returned(image(FigureText(child)))
              [] rule = "picture" -> Returned(image(firstImage(Within(child, {"img"}))))
              [] rule = "img" -> Returned(image(AltOf(child)))
              [] rule = "role-img" -> Returned(image(AriaLabel(child)))
              [] rule = "iframe" ->
                    IF child.denied \/ child.frame = <<>> THEN Returned(<<>>)
                    ELSE caught(deeper(child.frame[1].children))
              [] rule = "details" ->
                    LET summaries == SelectSeq(ChildElements(child),
                                               LAMBDA c : c.tag = "summary")
                    IN  Continue(Returned(heading(IF summaries = <<>> THEN <<>>
                                                  ELSE extractText(summaries[1]),
                                                  4)),
                                 DetailsLoop(ChildElements(child), knownHeadings,
                                             childContext, depth))
              [] rule \in {"figure", "shadow", "children"} ->
                    deeper(IF rule = "shadow" THEN child.shadow[1] ELSE child.children)
    IN  Apply(IF child.faulty THEN "fails"
              ELSE IF \/ ~isVisible(child) \/ isPresentational(child)
                      \/ isNoisyElement(child) \/ child.role \in LIVE_REGION_ROLES
              THEN "excluded"
              ELSE IF tag \in DOMAIN LevelOf THEN "heading"
              ELSE IF tag = "figure" /\ Len(Within(child, {"img"})) > 0 THEN "figure-img"
              ELSE IF tag \in {"p", "ul", "ol", "dl", "blockquote", "pre", "table",
                               "figure", "picture", "img"} THEN tag
              ELSE IF child.role = "img" THEN "role-img"
              ELSE IF tag \in {"iframe", "details"} THEN tag
              ELSE IF tag \in SKIP_TAGS THEN "skipped"
              ELSE IF child.shadow # <<>> THEN "shadow"
              ELSE IF Len(ChildElements(child)) > 0 THEN "children"
              ELSE "leaf")

----------------------------------------------------------------------------
(* extractMainContent and extractPageSnapshot                              *)

(* doc.querySelector("main") ?? doc.querySelector('[role="main"]'), as a   *)
(* sequence of length 0 or 1                                               *)
MainOf(document) ==
    LET light == LightTree(<<document.body>>, <<>>)
        byTag == SelectSeq(light, LAMBDA e : e.el.tag = "main")
        byRole == SelectSeq(light, LAMBDA e : e.el.role = "main")
    IN  IF byTag # <<>> THEN <<byTag[1].el>>
        ELSE IF byRole # <<>> THEN <<byRole[1].el>> ELSE <<>>

extractMainContent(document, knownHeadings) ==
    LET Walk(main) ==
            extractContentBlocks(IF main # <<>> THEN main[1].children
                                 ELSE document.body.children,
                                 knownHeadings,
                                 IF main # <<>> THEN "main" ELSE "body", 0)
    IN  Walk(MainOf(document))

(* The probe an entry answers to in the selector list of extractSearch:    *)
(* 1 the search type, 2 the names q, query, search and s, 3 a label that   *)
(* holds "search" in any case, 4 an input under role="search" or an        *)
(* element of role="searchbox", 0 none.  The pages carry no placeholder,   *)
(* id or data-testid attribute.                                            *)
SearchProbe(entry) ==
    LET el == entry.el
    IN  IF el.tag = "input" /\ el.type = "search" THEN 1
        ELSE IF el.tag = "input" /\ el.name \in {"q", "query", "search", "s"} THEN 2
        ELSE IF /\ el.tag = "input" /\ el.label # <<>>
                /\ Includes(ToLowerCase(el.label[1]), <<"search">>) THEN 3
        ELSE IF \/ el.tag = "input" /\ Inside(entry, {}, {"search"}, {})
                \/ el.role = "searchbox" THEN 4
        ELSE 0

(* the descriptor extractSearch builds from the input it settled on        *)
SearchOf(entry) ==
    LET forms == SelectSeq(entry.up, IsForm)
    IN  [action |-> IF IsForm(entry.el) \/ forms # <<>>
                    THEN LET form == IF IsForm(entry.el) THEN entry.el
                                     ELSE forms[Len(forms)]
                         IN  IF form.action = <<>> THEN DocumentUrl
                             ELSE absoluteUrl(HostResolve(form.action[1]))
                    ELSE OriginOf(DocumentUrl) \o <<"/", "search">>,
         paramName |-> IF entry.el.name # "" THEN entry.el.name ELSE "q"]

(* extractSearch, as a sequence of length 0 or 1: the first element that   *)
(* deepQueryAll returns for the joined selector list                       *)
extractSearch(document) ==
    LET found == SelectSeq(deepQueryAll(document), LAMBDA e : SearchProbe(e) > 0)
    IN  IF found = <<>> THEN <<>> ELSE <<SearchOf(found[1])>>

(* a block as the grouper reads it: of an array, its length                *)
AsGrouperBlock(block) ==
    LET count(opt) == IF opt = <<>> THEN <<>> ELSE <<Len(opt[1])>>
    IN  [Block(block.type, block.text, block.sourceContext)
            EXCEPT !.level = block.level, !.items = count(block.items),
                   !.rows = count(block.rows),
                   !.definitions = count(block.definitions)]

(* the paragraph texts of at least three words held by the groups          *)
ContentTexts(contentGroups) ==
    UNION {{contentGroups[g].blocks[b].text :
               b \in {k \in 1..Len(contentGroups[g].blocks) :
                         /\ contentGroups[g].blocks[k].type = "paragraph"
                         /\ SplitCount(contentGroups[g].blocks[k].text) >= 3}} :
           g \in 1..Len(contentGroups)}

(* navLinks.map((l) => l.href) as a set                                    *)
HrefsOf(entries) == {entries[i].href : i \in 1..Len(entries)}

(* extractPageSnapshot.  A host failure in the walk of the main content    *)
(* leaves the function before anything is returned.                        *)
extractPageSnapshot(document) ==
    LET Assemble(headings, mainContent, contentGroups, navLinks) ==
            IF mainContent.threw
            THEN [threw |-> TRUE, headings |-> <<>>, blocks |-> <<>>,
                  navLinks |-> <<>>, contentGroups |-> <<>>, forms |-> <<>>,
                  buttons |-> <<>>, links |-> <<>>, search |-> <<>>]
            ELSE [threw |-> FALSE, headings |-> headings,
                  blocks |-> mainContent.blocks, navLinks |-> navLinks,
                  contentGroups |-> contentGroups,
                  forms |-> extractForms(document),
                  buttons |-> extractButtons(document),
                  links |-> extractLinks(document, ContentTexts(contentGroups),
                               HrefsOf(navLinks)),
                  search |-> extractSearch(document)]
        Group(headings, mainContent) ==
            Assemble(headings, mainContent,
                     GroupAndScoreContent([i \in 1..Len(mainContent.blocks) |->
                                              AsGrouperBlock(mainContent.blocks[i])]),
                     extractNavLinks(document))
        Walk(headings) ==
            Group(headings,
                  extractMainContent(document,
                                     {headings[i].text : i \in 1..Len(headings)}))
    IN  Walk(extractHeadings(document))

----------------------------------------------------------------------------
(* The pages the extractor is run on.  A page is built child by child      *)
(* under its body from the elements of one family, or wrapped level by     *)
(* level into a chain of containers; then extractPageSnapshot runs once.   *)

MaxPageNodes == 2
MaxChainDepth == 52

(* words separated by single spaces                                        *)
Phrase(words) == Join([i \in 1..Len(words) |-> <<words[i]>>], <<" ">>)

With(tag, words) ==
    Element(tag, <<[Element("#text", <<>>) EXCEPT !.text = Phrase(words)]>>)
Anchor(rawHref, words) == [With("a", words) EXCEPT !.href = <<rawHref>>]
Labelled(el, words) == [el EXCEPT !.label = <<Phrase(words)>>]

(* the elements a page of each family is built from                        *)
PageElements(family) ==
    LET team == <<"/", "team">>
        news == <<"/", "news">>
        docs == <<"/", "docs", "/", "page">>
        help == <<"/", "help">>
        long == "pneumonoultramicroscopicsilicovolcanoconiosis"
        Input(type) == [Element("input", <<>>) EXCEPT !.type = type]
        Form(action, children) == [Element("form", children) EXCEPT !.action = action]
        Row(cells) == Element("tr", cells)
        Img(alt) == [Element("img", <<>>) EXCEPT !.alt = <<alt>>]
        Blank == [Element("#text", <<>>) EXCEPT !.text = <<" ", "\n">>]
        Faulty == [Element("div", <<>>) EXCEPT !.faulty = TRUE]
        Frame(children) ==
            [Element("iframe", <<>>) EXCEPT !.frame = <<Element("body", children)>>]
        Summary == With("summary", <<"more", "help">>)
    IN  CASE family = "anchors" ->
    { Anchor(team, <<"our", "team">>),
      Anchor(team, <<"the", "team">>),
      Anchor(team, <<"Home">>),
      Anchor(news, <<"news", "page">>),
      Anchor(news, <<>>),
      Anchor(docs, <<"News", "page">>),
      Anchor(<<"/", "docs", "%2F", "page">>, <<"docs", "page">>),
      Anchor(<<"mailto:", "team">>, <<"our", "team">>),
      Anchor(help, <<long, long, "now", ".", long>>),
      Anchor(help, <<"the", long, long, long>>),
      Labelled(Element("nav", <<Anchor(team, <<"the", "team">>),
                                Anchor(team, <<"our", "team">>)>>), <<"main">>),
      Labelled(Element("nav", <<Anchor(<<"https:", "//other.test", "/", "news">>,
                                       <<"our", "site">>)>>), <<"primary">>),
      Element("header", <<Element("nav", <<Anchor(news, <<"news", "page">>),
                                           Anchor(team, <<"team", "page">>)>>)>>),
      Labelled(Element("nav", <<Anchor(docs, <<>>)>>), <<"main">>),
      Element("nav", <<Anchor(docs, <<"the", "docs">>)>>),
      Element("footer", <<Element("nav", <<Anchor(team, <<"about", "us">>)>>)>>),
      [Element("div", <<Anchor(team, <<"team", "menu">>)>>) EXCEPT !.cls = "menu"] }
      [] family = "controls" ->
    { Form(<<help>>, <<Input("text"), Input("submit")>>),
      Form(<<<<"https:", "//site.test", "/", "help">>>>, <<Input("hidden")>>),
      Form(<<>>, <<Input("text")>>),
      Labelled(Form(<<>>, <<With("button", <<"Go">>)>>), <<"news">>),
      [Form(<<help>>, <<>>) EXCEPT !.hidden = TRUE],
      With("button", <<"Open", "menu">>),
      With("button", <<"open", "menu">>),
      With("button", <<"Submit">>),
      With("button", <<"Add", "to", "cart">>),
      Input("submit"),
      [Input("button") EXCEPT !.value = <<Phrase(<<"Go", "to", "slide", "2">>)>>],
      [Labelled(Element("div", <<>>), <<"Shop", "the", "news">>) EXCEPT !.role = "button"] }
      [] family = "blocks" ->
    { With("p", <<"the", "team", "page">>),
      With("p", <<"Home">>),
      With("p", <<"5">>),
      With("p", <<"Shop", "the", "news", "page">>),
      Element("p", <<Blank>>),
      Element("ul", <<With("li", <<"our", "team">>), With("li", <<"5">>),
                      With("li", <<>>), With("li", <<"Home">>)>>),
      Element("ol", <<With("li", <<"500", "g">>), With("li", <<>>),
                      [With("li", <<"the", "news">>) EXCEPT !.hidden = TRUE]>>),
      Element("dl", <<With("dt", <<"team">>), With("dd", <<"our", "team">>),
                      With("dd", <<"the", "news">>),
                      With("dt", <<"5">>), With("dd", <<"the", "docs">>),
                      With("dt", <<"news">>),
                      With("dt", <<"docs">>), With("dd", <<>>)>>),
      Element("dl", <<With("dt", <<"2">>), With("dd", <<"the", "docs">>),
                      With("dd", <<"our", "team">>)>>),
      With("blockquote", <<"the", "news">>),
      Element("blockquote", <<[With("p", <<"the", "news">>) EXCEPT !.hidden = TRUE]>>),
      With("pre", <<"x">>),
      Element("pre", <<>>),
      Element("table",
          <<Element("thead", <<Row(<<With("th", <<"team">>), With("th", <<"page">>)>>)>>),
            Element("tbody", <<Row(<<With("td", <<"our", "team">>), With("td", <<"5">>)>>),
                               Row(<<With("td", <<"5">>), With("td", <<>>)>>),
                               Row(<<With("td", <<"news">>)>>)>>)>>),
      Element("table", <<Row(<<With("th", <<"team">>)>>),
                         Row(<<With("td", <<"2">>), With("td", <<"500", "g">>)>>)>>),
      Element("table", <<With("caption", <<>>), Row(<<With("td", <<"the", "docs">>)>>)>>),
      Element("figure", <<Img(<<"team">>), With("figcaption", <<"our", "team">>)>>),
      Element("figure", <<Img(<<" ">>), With("figcaption", <<>>)>>),
      Element("figure", <<With("p", <<"the", "docs", "page">>)>>),
      Element("picture", <<Img(Phrase(<<"the", "team">>))>>),
      Img(<<" ", "news", " ">>),
      Img(<<" ">>),
      [Labelled(Element("div", <<>>), <<"our", "site">>) EXCEPT !.role = "img"],
      [Element("div", <<>>) EXCEPT !.role = "img", !.label = <<<<" ">>>>],
      With("div", <<"our", "news", "page">>),
      With("span", <<"a">>) }
      [] family = "structure" ->
    { With("h2", <<"our", "news">>),
      With("p", <<"the", "team", "page">>),
      Element("section", <<With("h3", <<"the", "docs">>), With("p", <<"our", "docs", "page">>)>>),
      Element("article", <<With("p", <<"the", "news", "page">>)>>),
      Element("details", <<Summary, With("p", <<"the", "help", "page">>)>>),
      Element("details", <<Summary, Element("div", <<With("p", <<"our", "help", "page">>)>>)>>),
      Element("details", <<Summary, Element("nav", <<With("p", <<"our", "site", "menu">>)>>)>>),
      Element("details", <<Summary, Element("article", <<With("p", <<"our", "news", "page">>)>>)>>),
      Element("section", <<Element("ul", <<With("li", <<"our", "team">>),
                                           With("li", <<"the", "docs">>)>>),
                           Element("ul", <<With("li", <<"news">>)>>),
                           Element("ol", <<With("li", <<"help">>),
                                           With("li", <<"the", "site", "menu">>)>>)>>),
      Element("nav", <<With("p", <<"the", "site", "menu">>)>>),
      [Labelled(Element("button", <<>>), <<"site", "menu">>) EXCEPT !.role = "img"],
      Element("aside", <<Img(Phrase(<<"the", "team">>))>>),
      Frame(<<With("p", <<"the", "docs", "page">>)>>),
      [Frame(<<With("p", <<"the", "docs", "page">>)>>) EXCEPT !.denied = TRUE],
      Frame(<<With("p", <<"our", "docs", "page">>), Faulty>>),
      Faulty,
      [Element("div", <<>>) EXCEPT !.shadow = <<<<With("p", <<"our", "team", "page">>)>>>>],
      [Element("div", <<With("p", <<"the", "news">>)>>) EXCEPT !.cls = "cookie"] }
      [] family = "search" ->
    { [Input("search") EXCEPT !.name = "query"],
      [Input("text") EXCEPT !.name = "s"],
      [Labelled(Input("text"), <<"Search", "our", "site">>) EXCEPT !.name = "find"],
      [Element("div", <<Input("text")>>) EXCEPT !.role = "search"],
      Form(<<help>>, <<[Input("text") EXCEPT !.name = "q"]>>),
      Form(<<>>, <<Input("search")>>),
      [Element("div", <<>>) EXCEPT !.shadow = <<<<Input("search")>>>>] }

Document(family, size, children) ==
    [body |-> Element("body", children), family |-> family, size |-> size]

InitExtract ==
    /\ blocks = <<>>
    /\ groups = <<>>
    /\ splitRan = FALSE
    /\ pc = "input"
    /\ doc = Document("empty", 0, <<>>)
    /\ snapshot = <<>>
    /\ worker = 0 /\ session = 0 /\ tabs = 0 /\ ready = 0 /\ navigate = 0
    /\ viewer = 0

(* one more element under the body of a page of its family                 *)
AddElement ==
    /\ pc = "input"
    /\ \E family \in {"anchors", "controls", "blocks", "structure", "search"} :
          /\ doc.family \in {"empty", family}
          /\ doc.size < MaxPageNodes
          /\ \E el \in PageElements(family) :
                doc' = Document(family, doc.size + 1, Append(doc.body.children, el))
    /\ UNCHANGED <<blocks, groups, splitRan, pc, snapshot, workerVars>>

(* One more level around the children of a chain: a paragraph of size + 1  *)
(* words, then the container that holds the levels below, an element, a    *)
(* same-origin frame or a shadow host.                                     *)
Wrap ==
    /\ pc = "input"
    /\ \E kind \in {"div", "frame", "shadow", "mixed"} :
          LET k == IF kind # "mixed" THEN kind
                   ELSE IF doc.size % 3 = 0 THEN "div"
                   ELSE IF doc.size % 3 = 1 THEN "frame" ELSE "shadow"
              below == doc.body.children
              container ==
                  IF k = "div" THEN Element("div", below)
                  ELSE IF k = "frame"
                       THEN [Element("iframe", <<>>)
                                EXCEPT !.frame = <<Element("body", below)>>]
                  ELSE [Element("div", <<>>) EXCEPT !.shadow = <<below>>]
          IN  /\ doc.family \in {"empty", kind}
              /\ doc.size < MaxChainDepth
              /\ doc' = Document(kind, doc.size + 1,
                            <<With("p", [i \in 1..(doc.size + 1) |-> "page"]), container>>)
    /\ UNCHANGED <<blocks, groups, splitRan, pc, snapshot, workerVars>>

(* the elements of a structure page put under a main region or an article *)
Enclose ==
    /\ pc = "input"
    /\ doc.family = "structure"
    /\ \E tag \in {"main", "article"} :
          doc' = Document("enclosed", doc.size, <<Element(tag, doc.body.children)>>)
    /\ UNCHANGED <<blocks, groups, splitRan, pc, snapshot, workerVars>>

Extract ==
    /\ pc = "input"
    /\ snapshot' = extractPageSnapshot(doc)
    /\ pc' = "done"
    /\ UNCHANGED <<blocks, groups, splitRan, doc, workerVars>>

NextExtract == AddElement \/ Wrap \/ Enclose \/ Extract

SpecExtract == InitExtract /\ [][NextExtract]_vars

----------------------------------------------------------------------------
(* Properties of the extractor.                                            *)

Extracted == pc = "done" /\ doc # <<>> /\ ~snapshot.threw

(* no two entries of a list agree on Key                                   *)
Distinct(entries, Key(_)) ==
    \A i, j \in 1..Len(entries) : i # j => Key(entries[i]) # Key(entries[j])

(* the link elements of the page, visible, in the order of enumeration     *)
VisibleLinks ==
    SelectSeq(deepQueryAll(doc), LAMBDA e : IsLink(e.el) /\ isVisible(e.el))

(* position k is the first of the sequence whose address is href           *)
FirstWithHref(anchors, k, href) ==
    /\ HrefOf(anchors[k].el) = href
    /\ \A n \in 1..(k - 1) : HrefOf(anchors[n].el) # href

(* a link element that no rule other than the duplicate-text rule rejects  *)
TextCandidate(anchors, k) ==
    /\ FirstWithHref(anchors, k, HrefOf(anchors[k].el))
    /\ ~LinkTargetRejected(anchors[k].el, HrefsOf(snapshot.navLinks))
    /\ ~LinkTextRejected(anchors[k].el, ContentTexts(snapshot.contentGroups))

(* C11: no two entries of navLinks share a resolved href, no two entries   *)
(* of links share a resolved href or a display text equal ignoring case,   *)
(* and an entry comes from the first candidate with its key: a navLinks    *)
(* entry from the first anchor of its tier with that href, a links entry   *)
(* from the first visible link element with that href, before which no     *)
(* other candidate had the same text ignoring case.                        *)
C11_DedupLaws ==
    Extracted =>
        /\ Distinct(snapshot.navLinks, LAMBDA n : n.href)
        /\ Distinct(snapshot.links, LAMBDA l : l.href)
        /\ Distinct(snapshot.links, LAMBDA l : ToLowerCase(l.text))
        /\ \A i \in 1..Len(snapshot.navLinks) :
              \E t \in 1..Len(TierAnchors(doc)) :
                 \E k \in 1..Len(TierAnchors(doc)[t]) :
                    /\ FirstWithHref(TierAnchors(doc)[t], k, snapshot.navLinks[i].href)
                    /\ AnchorText(TierAnchors(doc)[t][k].el) = snapshot.navLinks[i].text
        /\ \A i \in 1..Len(snapshot.links) :
              \E k \in 1..Len(VisibleLinks) :
                 /\ FirstWithHref(VisibleLinks, k, snapshot.links[i].href)
                 /\ LinkText(VisibleLinks[k].el) = snapshot.links[i].text
                 /\ \A n \in 1..(k - 1) :
                       TextCandidate(VisibleLinks, n)
                          => ToLowerCase(LinkText(VisibleLinks[n].el))
                                # ToLowerCase(snapshot.links[i].text)

(* Reached: two visible link elements with one address and different      *)
(* texts, the first acceptable to every rule; links holds the first only.  *)
C11_Witness ==
    /\ Extracted
    /\ \E k, n \in 1..Len(VisibleLinks) :
          /\ k < n
          /\ HrefOf(VisibleLinks[k].el) = HrefOf(VisibleLinks[n].el)
          /\ LinkText(VisibleLinks[k].el) # LinkText(VisibleLinks[n].el)
          /\ TextCandidate(VisibleLinks, k)
          /\ ~LinkTextRejected(VisibleLinks[n].el, ContentTexts(snapshot.contentGroups))
          /\ Len(snapshot.links) = 1
          /\ snapshot.links[1].text = LinkText(VisibleLinks[k].el)

(* the visible forms of the page, in the order of enumeration              *)
VisibleForms ==
    SelectSeq(deepQueryAll(doc), LAMBDA e : IsForm(e.el) /\ isVisible(e.el))

FormsWithoutAction(entries, Action(_)) ==
    Cardinality({i \in 1..Len(entries) : Action(entries[i]) = <<>>})

Substantive(text) == text # <<>> /\ ~isNoiseText(text)

(* C13: every emitted block satisfies the non-emptiness rule of its kind:  *)
(* paragraph, blockquote, preformatted and image blocks have a non-empty   *)
(* text; a list has at least one item and each item is non-empty and no    *)
(* noise; each definition pair has a non-empty, non-noise term and a       *)
(* non-empty description; a table has at least one row and each row has a  *)
(* cell that is non-empty and no noise.                                    *)
C13_BlocksNonEmpty ==
    Extracted =>
        \A i \in 1..Len(snapshot.blocks) :
            LET block == snapshot.blocks[i]
            IN  /\ block.type \in {"paragraph", "blockquote", "preformatted", "image"}
                      => block.text # <<>>
                /\ block.type = "list"
                      => /\ block.items # <<>>
                         /\ Len(block.items[1]) >= 1
                         /\ \A k \in 1..Len(block.items[1]) :
                               Substantive(block.items[1][k])
                /\ block.type = "definition-list"
                      => /\ block.definitions # <<>>
                         /\ \A k \in 1..Len(block.definitions[1]) :
                               /\ Substantive(block.definitions[1][k].term)
                               /\ block.definitions[1][k].description # <<>>
                /\ block.type = "table"
                      => /\ block.rows # <<>>
                         /\ Len(block.rows[1]) >= 1
                         /\ \A k \in 1..Len(block.rows[1]) :
                               \E c \in 1..Len(block.rows[1][k]) :
                                  Substantive(block.rows[1][k][c])

(* Reached: a page with a list of which some li children are empty or      *)
(* noise and with a table of which some rows hold noise only; the list     *)
(* block and the table block keep the remaining items and rows.            *)
C13_Witness ==
    /\ Extracted
    /\ Len(doc.body.children) = 2
    /\ doc.body.children[1].tag = "ul"
    /\ doc.body.children[2].tag = "table"
    /\ Len(snapshot.blocks) = 2
    /\ snapshot.blocks[1].type = "list"
    /\ Len(snapshot.blocks[1].items[1]) < Len(ChildElements(doc.body.children[1]))
    /\ snapshot.blocks[2].type = "table"
    /\ Len(snapshot.blocks[2].rows[1]) < Len(Within(doc.body.children[2], {"tr"}))


(* A chain page of size n holds, level by level, a paragraph of n, n - 1,  *)
(* ..., 1 words: the paragraph of k words is a child of the root the walk  *)
(* enters at depth n - k.                                                  *)
IsChain == doc.family \in {"div", "frame", "shadow", "mixed"}

(* C15: on a chain of elements, same-origin frames and shadow roots the    *)
(* walk ends without an error; the call made at a depth greater than       *)
(* MAX_DEPTH returns no blocks, and the paragraphs of all levels within    *)
(* the limit are returned, outermost first.                                *)
C15_DepthCeiling ==
    pc = "done" /\ IsChain =>
        /\ ~snapshot.threw
        /\ Len(snapshot.blocks) = Min(doc.size, MAX_DEPTH + 1)
        /\ \A i \in 1..Len(snapshot.blocks) :
              /\ snapshot.blocks[i].type = "paragraph"
              /\ SplitCount(snapshot.blocks[i].text) = doc.size - i + 1

(* Reached: a chain of frames one level deeper than the limit allows; the  *)
(* innermost paragraph is missing, the others are returned.                *)
C15_Witness ==
    /\ pc = "done"
    /\ doc.family = "frame"
    /\ doc.size = MAX_DEPTH + 2
    /\ ~snapshot.threw
    /\ Len(snapshot.blocks) = MAX_DEPTH + 1
    /\ SplitCount(snapshot.blocks[MAX_DEPTH + 1].text) = 2


(* the frames of a sequence of nodes whose document can be read            *)
Readable(node) == node.tag = "iframe" /\ ~node.denied /\ node.frame # <<>>

(* the host fails on a child of the body or on a child of the body of a    *)
(* readable frame, each of them a node the walk classifies                 *)
HostFails ==
    \E i \in 1..Len(doc.body.children) :
        LET child == doc.body.children[i]
        IN  \/ child.faulty
            \/ /\ Readable(child)
               /\ \E k \in 1..Len(child.frame[1].children) :
                     child.frame[1].children[k].faulty

(* C16: a frame whose document cannot be read yields nothing and raises    *)
(* nothing, the blocks of its siblings being returned as they are without  *)
(* it; a host failure anywhere else in the walk, also on a node inside a   *)
(* readable frame, leaves extractPageSnapshot as an error.                 *)
C16_FrameErrors ==
    pc = "done" /\ doc.family = "structure" =>
        /\ snapshot.threw = HostFails
        /\ ~HostFails =>
              snapshot.blocks =
                  extractMainContent(
                      Document(doc.family, doc.size,
                               SelectSeq(doc.body.children,
                                         LAMBDA n : ~(n.tag = "iframe" /\ n.denied))),
                      {snapshot.headings[i].text : i \in 1..Len(snapshot.headings)}).blocks


(* a heading element as the walk reads it: visible, with a text            *)
IsHeadingElement(el) ==
    el.tag \in DOMAIN LevelOf /\ isVisible(el) /\ extractText(el) # <<>>

(* The heading elements of a structure page that the walk reaches: the     *)
(* children of the body and the children of its section and article        *)
(* children.                                                               *)
WalkedHeadings ==
    {doc.body.children[i] : i \in {k \in 1..Len(doc.body.children) :
                                      IsHeadingElement(doc.body.children[k])}}
    \cup UNION {{doc.body.children[i].children[c] :
                    c \in {k \in 1..Len(doc.body.children[i].children) :
                              IsHeadingElement(doc.body.children[i].children[k])}} :
                i \in {k \in 1..Len(doc.body.children) :
                          doc.body.children[k].tag \in {"section", "article"}}}

(* C17: every visible heading element with a text that the walk reaches    *)
(* starts a section: contentGroups holds a group whose heading has that    *)
(* element's text and level.                                               *)
C17_HeadingsStartSections ==
    pc = "done" /\ doc.family = "structure" /\ ~snapshot.threw =>
        \A el \in WalkedHeadings :
            \E g \in 1..Len(snapshot.contentGroups) :
                snapshot.contentGroups[g].heading
                    = <<[text |-> extractText(el), level |-> LevelOf[el.tag]]>>

(* the known page headings of the snapshot                                 *)
KnownHeadings == {snapshot.headings[i].text : i \in 1..Len(snapshot.headings)}

(* C18: for a details element among the children of the body whose         *)
(* summary has a text that is no known page heading, blocks holds the      *)
(* level-4 heading of the summary, followed by the blocks that the         *)
(* ordinary rules of the loop give for its other children.                 *)
C18_DetailsChildren ==
    pc = "done" /\ doc.family = "structure" /\ ~snapshot.threw =>
        \A i \in 1..Len(doc.body.children) :
            LET el == doc.body.children[i]
                summaries == SelectSeq(ChildElements(el), LAMBDA c : c.tag = "summary")
                others == SelectSeq(ChildElements(el), LAMBDA c : c.tag # "summary")
                expected == ChildLoop(others, KnownHeadings, "body", 1).blocks
            IN  el.tag = "details" /\ isVisible(el) /\ summaries # <<>>
                   /\ HeadingKept(extractText(summaries[1]), KnownHeadings)
                => \E k \in 1..Len(snapshot.blocks) :
                      /\ snapshot.blocks[k].type = "heading"
                      /\ snapshot.blocks[k].text = extractText(summaries[1])
                      /\ snapshot.blocks[k].level = <<4>>
                      /\ k + Len(expected) <= Len(snapshot.blocks)
                      /\ SubSeq(snapshot.blocks, k + 1, k + Len(expected)) = expected

(* the texts an element and the elements under it could give to a block    *)
TextsUnder(el) ==
    LET under == LightTree(<<el>>, <<>>)
    IN  UNION {{extractText(under[k].el), AriaLabel(under[k].el), AltOf(under[k].el)} :
               k \in 1..Len(under)} \ {<<>>}

(* C19: an element with a tag of the skip list that the loop meets, among  *)
(* the children of the body or of a details element, gives no block and    *)
(* is not descended into: no block has a text of that element or of an     *)
(* element under it.                                                       *)
C19_SkipListSilent ==
    pc = "done" /\ doc.family = "structure" /\ ~snapshot.threw =>
        \A i \in 1..Len(doc.body.children) :
            LET el == doc.body.children[i]
                met == IF el.tag = "details" THEN ChildElements(el) ELSE <<el>>
            IN  \A m \in 1..Len(met) :
                    met[m].tag \in SKIP_TAGS =>
                        \A k \in 1..Len(snapshot.blocks) :
                            snapshot.blocks[k].text \notin TextsUnder(met[m])


(* the texts retained as paragraph blocks and as entries of links          *)
ProseTexts ==
    {snapshot.blocks[i].text :
        i \in {k \in 1..Len(snapshot.blocks) : snapshot.blocks[k].type = "paragraph"}}
    \cup {snapshot.links[i].text : i \in 1..Len(snapshot.links)}

ButtonTexts == {snapshot.buttons[i].text : i \in 1..Len(snapshot.buttons)}

(* C20 as stated: no paragraph block, no entry of links and no entry of    *)
(* buttons has a text that isNoiseText or isPromotionalParagraph accepts.  *)
C20_BothGates ==
    Extracted =>
        \A text \in ProseTexts \cup ButtonTexts :
            ~isNoiseText(text) /\ ~isPromotionalParagraph(text)

(* C20 amended: paragraph blocks and entries of links passed both gates;   *)
(* entries of buttons passed the noise gate, and neither are chrome        *)
(* phrases nor slide controls.                                             *)
C20_GatesPerKind ==
    Extracted =>
        /\ \A text \in ProseTexts :
              ~isNoiseText(text) /\ ~isPromotionalParagraph(text)
        /\ \A text \in ButtonTexts :
              /\ ~isNoiseText(text)
              /\ ToLowerCase(text) \notin NOISE_CHROME_STRINGS
              /\ ~Matches(SLIDE_CONTROL_PATTERN, text)

(* Reached: a page with two buttons outside forms, one with a noise text   *)
(* and one with a promotional text that is no noise; buttons holds the     *)
(* second only.                                                            *)
C20_Witness ==
    /\ Extracted
    /\ Len(doc.body.children) = 2
    /\ \A i \in 1..2 : IsButton(doc.body.children[i]) /\ isVisible(doc.body.children[i])
    /\ isNoiseText(ButtonText(doc.body.children[1]))
    /\ ~isNoiseText(ButtonText(doc.body.children[2]))
    /\ isPromotionalParagraph(ButtonText(doc.body.children[2]))
    /\ Len(snapshot.buttons) = 1
    /\ snapshot.buttons[1].text = ButtonText(doc.body.children[2])


(* the elements of the page that answer to a probe of extractSearch, in    *)
(* the order of enumeration                                                *)
SearchCandidates ==
    SelectSeq(deepQueryAll(doc), LAMBDA e : SearchProbe(e) > 0)

(* C21: when inputs of the page answer to different probes, the search     *)
(* descriptor is the one built from an input of the best probe among them  *)
(* (search type, then name, then label, then search landmark), wherever    *)
(* the inputs sit in the document.                                         *)
C21_SearchPriority ==
    Extracted /\ SearchCandidates # <<>> =>
        \E i \in 1..Len(SearchCandidates) :
            /\ \A j \in 1..Len(SearchCandidates) :
                  SearchProbe(SearchCandidates[i]) <= SearchProbe(SearchCandidates[j])
            /\ snapshot.search = <<SearchOf(SearchCandidates[i])>>


(* C22: no entry of links has the href of an entry of navLinks.            *)
C22_LinksAvoidNav ==
    Extracted =>
        \A i \in 1..Len(snapshot.links) : \A j \in 1..Len(snapshot.navLinks) :
            snapshot.links[i].href # snapshot.navLinks[j].href

(* Reached: a visible link element outside every nav has the address of a  *)
(* navLinks entry and a text that every rule accepts; links leaves it out. *)
C22_Witness ==
    /\ Extracted
    /\ \E k \in 1..Len(VisibleLinks) :
          /\ ~Inside(VisibleLinks[k], {"nav"}, {"navigation"}, {})
          /\ HrefOf(VisibleLinks[k].el) \in HrefsOf(snapshot.navLinks)
          /\ ~LinkTargetRejectedNavKept(VisibleLinks[k].el, {})
          /\ ~LinkTextRejected(VisibleLinks[k].el, ContentTexts(snapshot.contentGroups))
          /\ \A i \in 1..Len(snapshot.links) :
                snapshot.links[i].href # HrefOf(VisibleLinks[k].el)


(* The p elements under a sequence of nodes, each with its text and        *)
(* whether an article was passed on the way down from the traversal root,  *)
(* through child lists, shadow roots and the bodies of readable frames.    *)
RECURSIVE ParagraphsUnder(_, _)
ParagraphsUnder(nodes, inArticle) ==
    UNION {LET n == nodes[i]
               article == inArticle \/ n.tag = "article"
           IN  IF ~IsElement(n) THEN {}
               ELSE (IF n.tag = "p"
                     THEN {[text |-> extractText(n), inArticle |-> article]} ELSE {})
                        \cup ParagraphsUnder(n.children, article)
                        \cup (IF n.shadow # <<>>
                              THEN ParagraphsUnder(n.shadow[1], article) ELSE {})
                        \cup (IF n.frame # <<>> /\ ~n.denied
                              THEN ParagraphsUnder(n.frame[1].children, article)
                              ELSE {}) :
           i \in 1..Len(nodes)}

(* the context extractMainContent gives and the paragraphs under its root  *)
RootContext == IF MainOf(doc) # <<>> THEN "main" ELSE "body"
UnderRoot ==
    ParagraphsUnder(IF MainOf(doc) # <<>> THEN MainOf(doc)[1].children
                    ELSE doc.body.children, FALSE)

(* C23: a paragraph block produced from a p element has sourceContext      *)
(* article exactly when the element lies inside an article on its path     *)
(* from the traversal root, and otherwise the context of the root, main or *)
(* body, also inside frames, shadow roots and details elements.            *)
C23_ContextByArticle ==
    Extracted =>
        \A i \in 1..Len(snapshot.blocks) : \A e \in UnderRoot :
            snapshot.blocks[i].type = "paragraph" /\ e.text = snapshot.blocks[i].text
            => snapshot.blocks[i].sourceContext
                  = IF e.inArticle THEN "article" ELSE RootContext


(* an anchor that collectFromAnchors would keep if its href were new: its  *)
(* text is not the URL, its raw href is not double-encoded and its target  *)
(* is not on another origin                                                *)
NavAcceptable(el) ==
    /\ AnchorText(el) # HrefOf(el)
    /\ ~(/\ Len(AnchorText(el)) >= 2 /\ AnchorText(el)[1] \in {"https:", "http:"}
         /\ AnchorText(el)[2] \in {"//site.test", "//other.test"})
    /\ ~DoubleEncoded(el.href[1])
    /\ ~(Head(HrefOf(el)) \in {"https:", "http:"}
         /\ OriginOf(HrefOf(el)) # OriginOf(DocumentUrl))

(* the tiers that hold an acceptable anchor                                *)
GoodTiers ==
    {t \in 1..Len(TierAnchors(doc)) :
        \E k \in 1..Len(TierAnchors(doc)[t]) : NavAcceptable(TierAnchors(doc)[t][k].el)}

(* C24: navLinks is empty when no tier holds an acceptable anchor;         *)
(* otherwise it is not empty and each of its entries is an acceptable      *)
(* anchor of the first tier that holds one (primary-labelled navs, banner  *)
(* navs, remaining navs outside the footer, broad fallback), whatever the  *)
(* earlier tiers examined and rejected.                                    *)
C24_FirstGoodTier ==
    Extracted =>
        IF GoodTiers = {} THEN snapshot.navLinks = <<>>
        ELSE LET t == CHOOSE g \in GoodTiers : \A h \in GoodTiers : g <= h
             IN  /\ snapshot.navLinks # <<>>
                 /\ \A i \in 1..Len(snapshot.navLinks) :
                       \E k \in 1..Len(TierAnchors(doc)[t]) :
                          /\ NavAcceptable(TierAnchors(doc)[t][k].el)
                          /\ HrefOf(TierAnchors(doc)[t][k].el) = snapshot.navLinks[i].href
                          /\ AnchorText(TierAnchors(doc)[t][k].el) = snapshot.navLinks[i].text


(* C25: the score of a group is never greater than the total it would have *)
(* without the halving of noise-dominated groups, also when the total is   *)
(* negative because of repeated blocks.                                    *)
C25_HalvingPenalises ==
    Done => \A g \in GroupIds :
        groups[g].score <= SumScores(groups[g].blocks, 1, BuildRepetitionSet(groups))
                              + ContextBonus(groups[g].blocks) + HeadingBonus(groups[g])


(* C26: in the snapshot's groups every list block counts one half per item *)
(* towards the score of its group, also on a page with three lists or more *)
(* (whose blocks all have the empty text).                                 *)
C26_ListsScoreByItems ==
    Extracted =>
        \A g \in 1..Len(snapshot.contentGroups) :
            \A b \in 1..Len(snapshot.contentGroups[g].blocks) :
                LET block == snapshot.contentGroups[g].blocks[b]
                IN  block.type = "list" =>
                        BlockScore(block, BuildRepetitionSet(snapshot.contentGroups))
                            = Tenths(5 * block.items[1])


(* C27: when the first visible link element with an address is dropped by  *)
(* a rule on its text and a later visible link element with the same       *)
(* address passes every rule, links has an entry with that address.        *)
C27_RejectedKeepsHref ==
    Extracted =>
        \A k, n \in 1..Len(VisibleLinks) :
            /\ k < n
            /\ FirstWithHref(VisibleLinks, k, HrefOf(VisibleLinks[n].el))
            /\ ~LinkTargetRejected(VisibleLinks[k].el, HrefsOf(snapshot.navLinks))
            /\ LinkTextRejected(VisibleLinks[k].el, ContentTexts(snapshot.contentGroups))
            /\ ~LinkTargetRejected(VisibleLinks[n].el, HrefsOf(snapshot.navLinks))
            /\ ~LinkTextRejected(VisibleLinks[n].el, ContentTexts(snapshot.contentGroups))
            /\ \A m \in 1..(n - 1) :
                  ToLowerCase(LinkText(VisibleLinks[m].el))
                      # ToLowerCase(LinkText(VisibleLinks[n].el))
            => \E i \in 1..Len(snapshot.links) :
                  snapshot.links[i].href = HrefOf(VisibleLinks[n].el)

----------------------------------------------------------------------------
(* The background worker (src/src/background.ts), the browser around it    *)
(* and the viewer (src/src/renderer.ts 476-535).                           *)
(*                                                                         *)
(* A tab id is a positive number and 0 stands for undefined.  Tab 1 is the *)
(* tab whose page is snapshotted; the viewer tabs that the worker creates  *)
(* get the next ids.  worker holds the module variables, session is        *)
(* chrome.storage.session, tabs the open tabs, the closed tabs whose       *)
(* onRemoved event is still to be delivered, the last id given out and the *)
(* number of snapshots asked for.  ready holds one record for every        *)
(* snapshot-ready message, with the place its handler has reached and its  *)
(* snapTabId; navigate is the one run of handleNavigate with its listener  *)
(* (lastInjectedUrl is kept as set or not set, the two injections as none, *)
(* pending, ok or failed, status is the last status event of the tab).     *)
(* viewer is the viewer tab that sent the navigate request and what it     *)
(* shows.  A step runs a handler up to its next await; a write to the      *)
(* session storage is in place when it is issued.                          *)

MaxSnapshots == 2

InitWorker ==
    /\ blocks = <<>> /\ groups = <<>> /\ splitRan = FALSE /\ pc = "worker"
    /\ doc = <<>> /\ snapshot = <<>>
    /\ worker = [snapshotTabId |-> 0, originalTabId |-> 0]
    /\ session = [snapshotTabId |-> 0, originalTabId |-> 0]
    /\ tabs = [open |-> {1}, removed |-> {}, last |-> 1, snapshots |-> 0]
    /\ ready = <<>>
    /\ navigate = [pc |-> "idle", restricted |-> FALSE, target |-> 0,
                   listening |-> FALSE, lastInjectedUrl |-> FALSE,
                   early |-> "none", fallback |-> "none", status |-> "none"]
    /\ viewer = [tab |-> 0, state |-> "idle"]

(* takeSnapshot on tab 1: the ids are recorded, the content script is      *)
(* injected and sends its snapshot-ready message.                          *)
TakeSnapshot ==
    /\ pc = "worker"
    /\ 1 \in tabs.open
    /\ tabs.snapshots < MaxSnapshots
    /\ tabs' = [tabs EXCEPT !.snapshots = @ + 1]
    /\ worker' = [worker EXCEPT !.originalTabId = 1]
    /\ session' = [session EXCEPT !.originalTabId = 1]
    /\ ready' = Append(ready, [pc |-> "message", snapTabId |-> 0])
    /\ UNCHANGED <<blocks, groups, splitRan, pc, doc, snapshot, navigate, viewer>>

(* the listener receives snapshot-ready: let snapTabId = snapshotTabId,    *)
(* and the read of the session storage is awaited when it is undefined     *)
SnapshotReady ==
    /\ \E i \in 1..Len(ready) :
          /\ ready[i].pc = "message"
          /\ ready' = [ready EXCEPT ![i] =
                          IF worker.snapshotTabId # 0
                          THEN [pc |-> "send", snapTabId |-> worker.snapshotTabId]
                          ELSE [pc |-> "get", snapTabId |-> 0]]
    /\ UNCHANGED <<blocks, groups, splitRan, pc, doc, snapshot, worker, session,
                   tabs, navigate, viewer>>

(* the read resolves: snapTabId = stored.snapshotTabId, then sendMessage   *)
(* or, when it is still undefined, tabs.create                             *)
ReadyGot ==
    /\ \E i \in 1..Len(ready) :
          /\ ready[i].pc = "get"
          /\ ready' = [ready EXCEPT ![i] =
                          IF session.snapshotTabId # 0
                          THEN [pc |-> "send", snapTabId |-> session.snapshotTabId]
                          ELSE [pc |-> "create", snapTabId |-> 0]]
    /\ UNCHANGED <<blocks, groups, splitRan, pc, doc, snapshot, worker, session,
                   tabs, navigate, viewer>>

(* sendMessage settles: an open tab receives snapshot-updated, for a       *)
(* closed one the catch calls tabs.create                                  *)
ReadySent ==
    /\ \E i \in 1..Len(ready) :
          /\ ready[i].pc = "send"
          /\ IF ready[i].snapTabId \in tabs.open
             THEN /\ ready' = [ready EXCEPT ![i].pc = "done"]
                  /\ viewer' = IF viewer.tab = ready[i].snapTabId
                                  /\ viewer.state = "loading"
                               THEN [viewer EXCEPT !.state = "updated"]
                               ELSE viewer
             ELSE /\ ready' = [ready EXCEPT ![i].pc = "create"]
                  /\ viewer' = viewer
    /\ UNCHANGED <<blocks, groups, splitRan, pc, doc, snapshot, worker, session,
                   tabs, navigate>>

(* tabs.create resolves: snapshotTabId = tab.id, also in the storage       *)
ReadyCreated ==
    /\ \E i \in 1..Len(ready) :
          /\ ready[i].pc = "create"
          /\ ready' = [ready EXCEPT ![i].pc = "done"]
    /\ tabs' = [tabs EXCEPT !.open = @ \cup {tabs.last + 1}, !.last = @ + 1]
    /\ worker' = [worker EXCEPT !.snapshotTabId = tabs.last + 1]
    /\ session' = [session EXCEPT !.snapshotTabId = tabs.last + 1]
    /\ UNCHANGED <<blocks, groups, splitRan, pc, doc, snapshot, navigate, viewer>>

(* the user closes a tab                                                   *)
CloseTab ==
    /\ pc = "worker"
    /\ \E t \in tabs.open :
          tabs' = [tabs EXCEPT !.open = @ \ {t}, !.removed = @ \cup {t}]
    /\ UNCHANGED <<blocks, groups, splitRan, pc, doc, snapshot, worker, session,
                   ready, navigate, viewer>>

(* the chrome.tabs.onRemoved listener                                      *)
OnRemoved ==
    /\ \E t \in tabs.removed :
          /\ tabs' = [tabs EXCEPT !.removed = @ \ {t}]
          /\ worker' = [snapshotTabId |-> IF t = worker.snapshotTabId THEN 0
                                          ELSE worker.snapshotTabId,
                        originalTabId |-> IF t = worker.originalTabId THEN 0
                                          ELSE worker.originalTabId]
          /\ session' = [snapshotTabId |-> IF t = worker.snapshotTabId THEN 0
                                           ELSE session.snapshotTabId,
                         originalTabId |-> IF t = worker.originalTabId THEN 0
                                           ELSE session.originalTabId]
    /\ UNCHANGED <<blocks, groups, splitRan, pc, doc, snapshot, ready, navigate,
                   viewer>>
(* handleNavigate from line 78 to its next await, origTabId being known:   *)
(* the silent return, the refusal of a restricted URL, or the listener and *)
(* tabs.update                                                             *)
Proceed(origTabId, restricted) ==
    IF origTabId = 0 THEN [navigate EXCEPT !.pc = "done"]
    ELSE IF restricted THEN [navigate EXCEPT !.pc = "notify"]
    ELSE [navigate EXCEPT !.pc = "update", !.target = origTabId,
                          !.listening = TRUE]

(* a click on a link of the viewer: showLoading and the navigate message,  *)
(* whose handler reads originalTabId                                       *)
Navigate ==
    /\ pc = "worker"
    /\ navigate.pc = "idle"
    /\ \E tab \in tabs.open \ {1}, restricted \in BOOLEAN :
          /\ viewer' = [tab |-> tab, state |-> "loading"]
          /\ navigate' = IF worker.originalTabId # 0
                         THEN Proceed(worker.originalTabId, restricted)
                         ELSE [navigate EXCEPT !.pc = "get",
                                               !.restricted = restricted]
    /\ UNCHANGED <<blocks, groups, splitRan, pc, doc, snapshot, worker, session,
                   tabs, ready>>

(* the read of originalTabId from the session storage resolves             *)
NavGot ==
    /\ navigate.pc = "get"
    /\ navigate' = Proceed(session.originalTabId, navigate.restricted)
    /\ UNCHANGED <<blocks, groups, splitRan, pc, doc, snapshot, worker, session,
                   tabs, ready, viewer>>

(* tabs.update settles: the tab starts to load, or it is gone and the      *)
(* catch removes the listener                                              *)
NavUpdated ==
    /\ navigate.pc = "update"
    /\ navigate' = IF navigate.target \in tabs.open
                   THEN [navigate EXCEPT !.pc = "navigating"]
                   ELSE [navigate EXCEPT !.pc = "notify", !.listening = FALSE]
    /\ UNCHANGED <<blocks, groups, splitRan, pc, doc, snapshot, worker, session,
                   tabs, ready, viewer>>

(* notifyNavigateError: navigate-error reaches the viewer when the         *)
(* snapshot tab is known and open                                          *)
NotifyNavigateError ==
    /\ navigate.pc = "notify"
    /\ navigate' = [navigate EXCEPT !.pc = "done"]
    /\ LET snapTabId == IF worker.snapshotTabId # 0 THEN worker.snapshotTabId
                        ELSE session.snapshotTabId
       IN  viewer' = IF snapTabId \in tabs.open /\ viewer.tab = snapTabId
                        /\ viewer.state = "loading"
                     THEN [viewer EXCEPT !.state = "error"]
                     ELSE viewer
    /\ UNCHANGED <<blocks, groups, splitRan, pc, doc, snapshot, worker, session,
                   tabs, ready>>

(* onUpdated with status loading and the new url: the early injection      *)
TabLoading ==
    /\ navigate.pc = "navigating"
    /\ navigate.status = "none"
    /\ navigate.target \in tabs.open
    /\ navigate' = IF navigate.listening /\ ~navigate.lastInjectedUrl
                   THEN [navigate EXCEPT !.status = "loading",
                                         !.lastInjectedUrl = TRUE,
                                         !.early = "pending"]
                   ELSE [navigate EXCEPT !.status = "loading"]
    /\ UNCHANGED <<blocks, groups, splitRan, pc, doc, snapshot, worker, session,
                   tabs, ready, viewer>>

(* onUpdated with status complete: the listener is removed and the         *)
(* fallback injection is made when lastInjectedUrl is not set              *)
TabComplete ==
    /\ navigate.pc = "navigating"
    /\ navigate.status = "loading"
    /\ navigate.target \in tabs.open
    /\ navigate' = IF navigate.listening /\ ~navigate.lastInjectedUrl
                   THEN [navigate EXCEPT !.status = "complete", !.pc = "done",
                                         !.listening = FALSE,
                                         !.fallback = "pending"]
                   ELSE [navigate EXCEPT !.status = "complete", !.pc = "done",
                                         !.listening = FALSE]
    /\ UNCHANGED <<blocks, groups, splitRan, pc, doc, snapshot, worker, session,
                   tabs, ready, viewer>>

(* executeScript settles: the injected script sends snapshot-ready, or the *)
(* catch runs, which for the early injection clears lastInjectedUrl        *)
InjectSettled ==
    /\ \E ok \in BOOLEAN :
          /\ ok => navigate.target \in tabs.open
          /\ \/ /\ navigate.early = "pending"
                /\ navigate' = IF ok THEN [navigate EXCEPT !.early = "ok"]
                               ELSE [navigate EXCEPT !.early = "failed",
                                                     !.lastInjectedUrl = FALSE]
             \/ /\ navigate.fallback = "pending"
                /\ navigate' = [navigate EXCEPT
                                   !.fallback = IF ok THEN "ok" ELSE "failed"]
          /\ ready' = IF ok THEN Append(ready, [pc |-> "message", snapTabId |-> 0])
                      ELSE ready
    /\ UNCHANGED <<blocks, groups, splitRan, pc, doc, snapshot, worker, session,
                   tabs, viewer>>

NextWorker ==
    \/ TakeSnapshot \/ SnapshotReady \/ ReadyGot \/ ReadySent \/ ReadyCreated
    \/ CloseTab \/ OnRemoved
    \/ Navigate \/ NavGot \/ NavUpdated \/ NotifyNavigateError
    \/ TabLoading \/ TabComplete \/ InjectSettled

SpecWorker == InitWorker /\ [][NextWorker]_vars

----------------------------------------------------------------------------
(* Properties of the background worker                                     *)

(* C28: at most one viewer tab is open at any time: a snapshot-ready       *)
(* message reuses the open viewer tab and a new one is created only when   *)
(* none is open.                                                           *)
C28_OneViewerTab ==
    pc = "worker" => Cardinality(tabs.open \ {1}) <= 1

(* C29: when the early injection has failed and the tab reaches the status *)
(* complete, the fallback injection is made.                               *)
C29_FallbackAfterFailure ==
    (pc = "worker" /\ navigate.early = "failed" /\ navigate.status = "complete")
        => navigate.fallback # "none"

(* The worker under the scheduling of the browser: a handler that can go   *)
(* on, a raised event and a settling promise are not put off forever; the  *)
(* user is free never to click and never to close a tab.                   *)
SpecWorkerFair ==
    /\ SpecWorker
    /\ WF_vars(SnapshotReady) /\ WF_vars(ReadyGot) /\ WF_vars(ReadySent)
    /\ WF_vars(ReadyCreated) /\ WF_vars(OnRemoved)
    /\ WF_vars(NavGot) /\ WF_vars(NavUpdated) /\ WF_vars(NotifyNavigateError)
    /\ WF_vars(TabLoading) /\ WF_vars(TabComplete) /\ WF_vars(InjectSettled)

(* C30: a viewer that shows the loading state after a click on a link      *)
(* receives snapshot-updated or navigate-error, unless its tab is closed.  *)
C30_LoadingIsAnswered ==
    (pc = "worker" /\ viewer.state = "loading")
        ~> (viewer.state \in {"updated", "error"} \/ viewer.tab \notin tabs.open)



====
